---- MODULE Spec2Model ----
(***************************************************************************)
(* Listen: hotkey-driven voice capture.                                    *)
(*                                                                         *)
(* SpecApp   - the Swift AppState (part_001) with AudioCaptureService and  *)
(*             the audio callback thread and transcription tasks.          *)
(* SpecHistory - AppState late in its life: a transcript history at or     *)
(*             near its limit and transcription Tasks in flight.           *)
(* SpecOrch  - the Electron orchestrator (electron/main.js) with the       *)
(*             native listener processes, the OS accelerators and the      *)
(*             worker process at the other end of the pipes.               *)
(* SpecGlobe - the native key listener (macos-globe-listener.swift): its   *)
(*             event-tap callback, the keys held and the OS disabling taps.*)
(* SpecParse - the orchestrator's reader of the worker's stdout, fed a     *)
(*             byte stream in chunks of every size.                        *)
(***************************************************************************)
EXTENDS Integers, Sequences, FiniteSets, TLC

\* ------------------------------------------------------------------ bounds
MaxSessions == 2      \* recording sessions started in one run
MaxBlocks == 2        \* hardware blocks delivered by the audio thread
MaxInputs == 3        \* key presses, accelerator fires, settings changes, exits
MaxTasks == 3         \* transcription Tasks in flight over a long history
MaxKeyEvents == 5     \* modifier-key transitions seen by the native listener
MaxPipe == 2          \* commands, and messages, in flight in a pipe
MaxClock == 3         \* seconds of a shutdown that are followed
MaxChanges == 2       \* changes of the device dropdown
MaxMsgs == 3          \* messages delivered to the renderer
MaxTapBlocks == 2     \* hardware blocks whose samples are followed
MaxFrames == 2        \* frames of a resampled block
MaxSpawns == 2        \* listeners spawned in a run
MaxParts == 2         \* '+'-separated parts of a hotkey string

\* -------------------------------------------------------- program constants
HistoryLimit == 200   \* transcriptions.count > 200 -> removeFirst

VARIABLES
    \* AppState (part_001)
    isRecording, isModelLoaded, isModelLoading, statusText, lastTranscription,
    transcriptions, errorMessage, config, audioSamples, bootPC,
    \* AudioCaptureService (isRunning, converter, tap on bus 0, engine, onBuffer)
    acs,
    \* the audio thread's callback in flight, the transcription Tasks in flight
    tapPending, tasks,
    \* the process died of an uncaught exception
    crashed,
    \* observation: session numbering, blocks delivered, the transcribe calls
    \* made, the texts handed to the text inserter, the last call made
    session, nextBlock, dispatched, inserted, lastCall,
    \* main.js: module variables, child processes, registered accelerators,
    \* the stdout reader's buffer, the worker's stdin, the messages sent to the
    \* window and the binding calls made by the last handler, and what the
    \* machine offers the helper
    currentHotkey, currentMode, isActive, pill, globeProcess, pythonProcess,
    registered, procs, buffer, stdin, sent, calls, machine,
    \* the worker process and its stdout
    worker, stdout,
    \* the byte stream fed to the reader, and how far it has been delivered
    stream, pos,
    \* observation: all messages sent to the window with the chunk that caused
    \* each, the lines the reader has split off, and counts of the inputs, the
    \* Down->Up pairs, the accelerator fires and the set_active sessions
    forwarded, linesSeen, nInputs, nDown, nPairs, nFires, nSessions, sessOpen,
    tgInitial, modeChanged,
    \* macos-globe-listener.swift: the global fnDown, the tokens printed, which
    \* of the two event taps are enabled, a tap-disabled event waiting for the
    \* callback; the modifier keys physically held
    fnDown, emitted, tapEnabled, tapNotice, held,
    \* observation: key transitions so far, whether the fn press under way was
    \* made with another modifier held, FN_DOWNs printed during the press under
    \* way, FN_UPs printed since the last release
    nKeyEvents, pressCombined, downsInPress, upsInRelease,
    \* main.js shutdown: how far the application is in quitting, the time in
    \* seconds, when the pending kill timer is due, the worker process as the
    \* operating system has it; observation: quit messages written to the
    \* worker, when the worker was force-terminated, when will-quit ran
    appPhase, clock, killTimer, workerProc, quitWrites, termAt, quitAt,
    \* renderer.js: modelLoaded, currentState, the device dropdown's options
    \* and value, the commands passed to window.listen.send, the pending
    \* setTimeout callbacks of the device listener in the order they are due
    modelLoaded, currentState, deviceOptions, deviceValue, rsent, startTimers,
    \* observation: for each change of the dropdown, modelLoaded and
    \* currentState at that moment; the messages delivered so far
    changeLog, nMsgs,
    \* AudioCaptureService, the signal path of the tap block: the sample rate
    \* of the input format, hpPrevInput, hpPrevOutput, chunkCount, and the
    \* consumer's buffer (audioSamples of the session, as samples)
    inputRate, hpPrevInput, hpPrevOutput, chunkCount, sessionSamples,
    \* observation: what the tap block did with the last hardware block, all
    \* filtered samples of the session, the hardware blocks so far
    lastTap, filteredAll, nTapBlocks,
    \* --- the listener's start: where the listener spawned last is (none,
    \* spawned, tapped, ready, exited, closed), the tapCreate that failed (0:
    \* none), the tokens it wrote to stderr that the orchestrator has not
    \* read yet
    listenerPC, failPoint, errPipe,
    \* observation: error messages sent to the window since the spawn, the
    \* listeners spawned so far
    nErrorsSent, nSpawns,
    \* --- formatHotkey on strings: the argument of the call, its result, and
    \* where the call is (idle, call, done)
    fmtIn, fmtOut, fmtPC

appVars == <<isRecording, isModelLoaded, isModelLoading, statusText,
             lastTranscription, transcriptions, errorMessage, config,
             audioSamples, bootPC, acs, tapPending, tasks, crashed,
             session, nextBlock, dispatched, inserted, lastCall>>

orchVars == <<currentHotkey, currentMode, isActive, pill, globeProcess,
              pythonProcess, registered, procs, buffer, stdin, sent, calls, machine>>

workerVars == <<worker, stdout>>

readerVars == <<stream, pos, forwarded, linesSeen>>

countVars == <<nInputs, nDown, nPairs, nFires, nSessions, sessOpen, tgInitial,
               modeChanged>>

nativeVars == <<fnDown, emitted, tapEnabled, tapNotice, held, nKeyEvents,
                pressCombined, downsInPress, upsInRelease>>

\* what the actions of main.js leave alone besides AppState
quitVars == <<appPhase, clock, killTimer, workerProc, quitWrites, termAt,
              quitAt>>

rendererVars == <<modelLoaded, currentState, deviceOptions, deviceValue, rsent,
                  startTimers, changeLog, nMsgs>>

tapVars == <<inputRate, hpPrevInput, hpPrevOutput, chunkCount, sessionSamples,
             lastTap, filteredAll, nTapBlocks>>

attachVars == <<listenerPC, failPoint, errPipe, nErrorsSent, nSpawns>>

formatVars == <<fmtIn, fmtOut, fmtPC>>

otherVars == <<quitVars, rendererVars, tapVars, attachVars, formatVars>>

sideVars == <<nativeVars, otherVars>>

\* everything outside AppState
electronVars == <<orchVars, workerVars, readerVars, countVars, sideVars>>

vars == <<appVars, electronVars>>

\* ------------------------------------------------------------------- text
TextChars == {" ", "\n", "a"}

\* the texts the engine is taken to return: empty, whitespace only, a word, a
\* word inside whitespace, two words
Texts == {<<>>, <<" ">>, <<" ", "\n">>, <<"a">>, <<" ", "a", "\n">>, <<"a", " ", "a">>}

\* CharacterSet.whitespacesAndNewlines, restricted to the characters modelled
IsWhitespaceOrNewline(c) == c \in {" ", "\n"}

RECURSIVE DropLeading(_)
DropLeading(s) ==
    IF s = <<>> THEN s
    ELSE IF IsWhitespaceOrNewline(Head(s)) THEN DropLeading(Tail(s)) ELSE s

RECURSIVE DropTrailing(_)
DropTrailing(s) ==
    IF s = <<>> THEN s
    ELSE IF IsWhitespaceOrNewline(s[Len(s)])
         THEN DropTrailing(SubSeq(s, 1, Len(s) - 1)) ELSE s

\* text.trimmingCharacters(in: .whitespacesAndNewlines)
trimmingCharacters(text) == DropTrailing(DropLeading(text))

\* --------------------------------------------------- AudioCaptureService
StartOutcomes == {"ok", "converterFail", "engineFail"}

AcsInit == [isRunning |-> FALSE, converter |-> FALSE, taps |-> 0,
            engineRunning |-> FALSE, onBuffer |-> 0]

\* AudioCaptureService.start(): the service afterwards, whether it threw, and
\* whether installTap raised (a second tap on bus 0 is an uncaught NSException)
AudioCaptureService_start(a, outcome) ==
    IF a.isRunning THEN [acs |-> a, threw |-> FALSE, crash |-> FALSE]
    ELSE IF outcome = "converterFail" THEN [acs |-> a, threw |-> TRUE, crash |-> FALSE]
    ELSE LET a1 == [a EXCEPT !.converter = TRUE]
         IN  IF a1.taps > 0 THEN [acs |-> a1, threw |-> FALSE, crash |-> TRUE]
             ELSE LET a2 == [a1 EXCEPT !.taps = 1]
                  IN  IF outcome = "engineFail"
                      THEN [acs |-> a2, threw |-> TRUE, crash |-> FALSE]
                      ELSE [acs |-> [a2 EXCEPT !.isRunning = TRUE, !.engineRunning = TRUE],
                            threw |-> FALSE, crash |-> FALSE]

\* AudioCaptureService.stop()
AudioCaptureService_stop(a) ==
    IF ~a.isRunning THEN a
    ELSE [a EXCEPT !.taps = 0, !.engineRunning = FALSE, !.isRunning = FALSE,
                   !.onBuffer = 0, !.converter = FALSE]

\* ------------------------------------------------------------- AppState
AppInit ==
    /\ isRecording = FALSE
    /\ isModelLoaded = FALSE
    /\ isModelLoading = FALSE
    /\ statusText = "Initializing..."
    /\ lastTranscription = <<>>
    /\ transcriptions = <<>>
    /\ errorMessage = "nil"
    /\ config = [mode |-> "pushToTalk", hotkey |-> "fn"]
    /\ audioSamples = <<>>
    /\ bootPC = "start"
    /\ acs = AcsInit
    /\ tapPending = <<>>
    /\ tasks = {}
    /\ crashed = FALSE
    /\ session = 0
    /\ nextBlock = 1
    /\ dispatched = <<>>
    /\ inserted = <<>>
    /\ lastCall = [op |-> "init"]

bootstrapVarsUnchanged ==
    UNCHANGED <<electronVars, isRecording, lastTranscription, transcriptions, config, audioSamples,
                acs, tapPending, tasks, crashed, session, nextBlock, dispatched, inserted>>

\* bootstrap(), up to the suspension in `try await whisperService.loadModel()`
bootstrapBegin ==
    /\ ~crashed /\ bootPC = "start"
    /\ statusText' = "Loading Parakeet model..."
    /\ isModelLoading' = TRUE
    /\ bootPC' = "loading"
    /\ lastCall' = [op |-> "bootstrap"]
    /\ UNCHANGED <<isModelLoaded, errorMessage>>
    /\ bootstrapVarsUnchanged

\* bootstrap(), loadModel() returned
bootstrapLoaded ==
    /\ ~crashed /\ bootPC = "loading"
    /\ isModelLoaded' = TRUE
    /\ isModelLoading' = FALSE
    /\ statusText' = "Ready"
    /\ bootPC' = "done"
    /\ lastCall' = [op |-> "bootstrap"]
    /\ UNCHANGED errorMessage
    /\ bootstrapVarsUnchanged

\* bootstrap(), loadModel() threw
bootstrapFailed ==
    /\ ~crashed /\ bootPC = "loading"
    /\ isModelLoading' = FALSE
    /\ errorMessage' = "Failed to load model"
    /\ statusText' = "Error"
    /\ bootPC' = "done"
    /\ lastCall' = [op |-> "bootstrap"]
    /\ UNCHANGED isModelLoaded
    /\ bootstrapVarsUnchanged

\* a plausible slip: the guard on isModelLoaded is missing
setActivePasses_NoGuard == TRUE

\* setActive: `guard isModelLoaded else { return }`
setActivePasses == isModelLoaded

\* a plausible slip: a start is not refused while a session is open
setActiveStarts_NoOpenCheck(active) == active

\* setActive: `if active && !isRecording`
setActiveStarts(active) == active /\ ~isRecording

\* setActive: `else if !active && isRecording`
setActiveStops(active) == ~active /\ isRecording

\* startRecording(); `outcome` is what the platform does to audioCaptureService.start()
startRecording(outcome) ==
    LET wired == [acs EXCEPT !.onBuffer = session + 1]
        r == AudioCaptureService_start(wired, outcome)
    IN  /\ session' = session + 1
        /\ audioSamples' = <<>>
        /\ acs' = r.acs
        /\ crashed' = r.crash
        /\ IF r.crash
           THEN /\ isRecording' = TRUE
                /\ statusText' = "Recording..."
                /\ UNCHANGED errorMessage
           ELSE IF r.threw
           THEN /\ errorMessage' = "Audio capture failed"
                /\ isRecording' = FALSE
                /\ statusText' = "Error"
           ELSE /\ isRecording' = TRUE
                /\ statusText' = "Recording..."
                /\ UNCHANGED errorMessage
        /\ UNCHANGED <<tasks, dispatched>>

\* a plausible slip: the empty-buffer guard is missing
stopDispatches_NoEmptyGuard(samples) == TRUE

\* stopRecording: `guard !samples.isEmpty else { ...; return }`
stopDispatches(samples) == samples # <<>>

\* a plausible slip: the capture service's stop() empties the session buffer,
\* so the caller drains an empty buffer
stopRecording_StopClears ==
    /\ isRecording' = FALSE
    /\ acs' = AudioCaptureService_stop(acs)
    /\ audioSamples' = <<>>
    /\ statusText' = "Ready"
    /\ UNCHANGED <<tasks, dispatched, errorMessage, crashed, session>>

\* stopRecording()
stopRecording ==
    LET samples == audioSamples
    IN  /\ isRecording' = FALSE
        /\ acs' = AudioCaptureService_stop(acs)
        /\ audioSamples' = <<>>
        /\ IF stopDispatches(samples)
           THEN /\ statusText' = "Transcribing..."
                /\ tasks' = tasks \cup {[sess |-> session, samples |-> samples]}
                /\ dispatched' = Append(dispatched, [sess |-> session, samples |-> samples])
           ELSE /\ statusText' = "Ready"
                /\ UNCHANGED <<tasks, dispatched>>
        /\ UNCHANGED <<errorMessage, crashed, session>>

\* setActive(_ active: Bool)
setActive(active) ==
    /\ UNCHANGED electronVars
    /\ ~crashed
    /\ lastCall' = [op |-> "setActive", active |-> active]
    /\ IF setActivePasses /\ setActiveStarts(active)
       THEN /\ session < MaxSessions
            /\ \E outcome \in StartOutcomes : startRecording(outcome)
       ELSE IF setActivePasses /\ setActiveStops(active)
       THEN stopRecording
       ELSE UNCHANGED <<isRecording, statusText, errorMessage, audioSamples, acs,
                        tasks, crashed, session, dispatched>>
    /\ UNCHANGED <<isModelLoaded, isModelLoading, lastTranscription, transcriptions,
                   config, bootPC, tapPending, nextBlock, inserted>>

\* toggleRecording()
toggleRecording == setActive(~isRecording)

\* observeConfigChanges: config.mode / config.hotkey are set from the settings UI
\* (and onHotkeyRecorded); the sinks forward them to the hotkey services
Modes == {"pushToTalk", "toggleMute"}
Hotkeys == {"fn", "f5"}

configChange ==
    /\ UNCHANGED electronVars
    /\ ~crashed
    /\ \E m \in Modes, h \in Hotkeys :
          /\ [mode |-> m, hotkey |-> h] # config
          /\ config' = [mode |-> m, hotkey |-> h]
    /\ lastCall' = [op |-> "config"]
    /\ UNCHANGED <<isRecording, isModelLoaded, isModelLoading, statusText,
                   lastTranscription, transcriptions, errorMessage, audioSamples,
                   bootPC, acs, tapPending, tasks, crashed, session, nextBlock,
                   dispatched, inserted>>

\* ------------------------------------------------------- the audio thread
\* The tap block of AudioCaptureService.start, run by the audio thread for one
\* hardware block, up to the call `self.onBuffer?(outputBuffer)`: the closure that
\* is installed at that moment is entered with the block (frames = 0: the block
\* resamples to nothing and is dropped).
tapDeliver ==
    /\ UNCHANGED electronVars
    /\ ~crashed
    /\ acs.engineRunning /\ acs.taps > 0
    /\ tapPending = <<>>
    /\ nextBlock <= MaxBlocks
    /\ \E frames \in {0, 1} :
          /\ tapPending' = IF acs.converter /\ frames > 0 /\ acs.onBuffer # 0
                           THEN <<[s |-> acs.onBuffer, n |-> nextBlock]>>
                           ELSE <<>>
    /\ nextBlock' = nextBlock + 1
    /\ lastCall' = [op |-> "tap"]
    /\ UNCHANGED <<isRecording, isModelLoaded, isModelLoading, statusText,
                   lastTranscription, transcriptions, errorMessage, config,
                   audioSamples, bootPC, acs, tasks, crashed, session,
                   dispatched, inserted>>

\* The onBuffer closure of startRecording, on the audio thread:
\* `self.audioSamples.append(contentsOf: samples)`, then the rest of the tap block
tapAppend ==
    /\ UNCHANGED electronVars
    /\ ~crashed
    /\ tapPending # <<>>
    /\ audioSamples' = Append(audioSamples, tapPending[1])
    /\ tapPending' = <<>>
    /\ lastCall' = [op |-> "tap"]
    /\ UNCHANGED <<isRecording, isModelLoaded, isModelLoading, statusText,
                   lastTranscription, transcriptions, errorMessage, config,
                   bootPC, acs, tasks, crashed, session, nextBlock, dispatched, inserted>>

\* --------------------------------------------------- transcription Tasks
\* a plausible slip: the raw text is tested, not the trimmed one
transcriptionDiscarded_Untrimmed(text) == text = <<>>

\* handleTranscription: `guard !trimmed.isEmpty else { ...; return }`
transcriptionDiscarded(text) == trimmingCharacters(text) = <<>>

\* a plausible slip: the bound is tested with >=, evicting at the limit
appendBounded_EvictsAtLimit(history, entry) ==
    LET h == Append(history, entry)
    IN  IF Len(h) >= HistoryLimit THEN Tail(h) ELSE h

\* transcriptions.append(trimmed); if transcriptions.count > 200 { removeFirst() }
appendBounded(history, entry) ==
    LET h == Append(history, entry)
    IN  IF Len(h) > HistoryLimit THEN Tail(h) ELSE h

\* handleTranscription(_ text: String), for the Task of session `sess`
handleTranscription(text, sess) ==
    LET trimmed == trimmingCharacters(text)
    IN  /\ statusText' = "Ready"
        /\ IF transcriptionDiscarded(text)
           THEN UNCHANGED <<lastTranscription, transcriptions, inserted>>
           ELSE /\ lastTranscription' = trimmed
                /\ transcriptions' = appendBounded(transcriptions, trimmed)
                /\ inserted' = Append(inserted, [text |-> trimmed, sess |-> sess])

\* the Task of stopRecording: transcribe returned `text`
transcribeReturns ==
    /\ UNCHANGED electronVars
    /\ ~crashed
    /\ \E t \in tasks, text \in Texts :
          /\ tasks' = tasks \ {t}
          /\ handleTranscription(text, t.sess)
          /\ lastCall' = [op |-> "transcribed", text |-> text, sess |-> t.sess]
    /\ UNCHANGED <<isRecording, isModelLoaded, isModelLoading, errorMessage, config,
                   audioSamples, bootPC, acs, tapPending, crashed, session,
                   nextBlock, dispatched>>

\* a plausible slip: the catch block records the error and leaves the status
transcriptionFailed_StatusKept ==
    /\ errorMessage' = "Transcription failed"
    /\ statusText' = statusText

\* stopRecording, the catch block of the Task: `await MainActor.run { ... }`
transcriptionFailed ==
    /\ errorMessage' = "Transcription failed"
    /\ statusText' = "Ready"

\* the Task of stopRecording: transcribe threw
transcribeThrows ==
    /\ UNCHANGED electronVars
    /\ ~crashed
    /\ \E t \in tasks :
          /\ tasks' = tasks \ {t}
          /\ lastCall' = [op |-> "transcribeFailed", sess |-> t.sess]
    /\ transcriptionFailed
    /\ UNCHANGED <<isRecording, isModelLoaded, isModelLoading, lastTranscription,
                   transcriptions, config, audioSamples, bootPC, acs, tapPending,
                   crashed, session, nextBlock, dispatched, inserted>>

\* ===================================================== electron/main.js
\* ------------------------------------------------------- hotkey strings
\* A hotkey string is held as its '+'-separated parts: "ctrl+alt+p" is
\* <<"ctrl", "alt", "p">>; null is <<>>.
NoHotkey == <<>>
OrchHotkeys == {<<"fn">>, <<"Fn">>, <<"ctrl", "alt", "p">>}

\* String.prototype.toLowerCase on the parts modelled
toLowerCase(p) ==
    CASE p = "Fn" -> "fn"
      [] p = "F5" -> "f5"
      [] OTHER -> p

\* isGlobeHotkey(hotkey)
isGlobeHotkey(hotkey) ==
    Len(hotkey) = 1 /\ toLowerCase(hotkey[1]) \in {"fn", "globe"}

\* formatHotkey: the mapping of one part
formatPart(part) ==
    LET p == toLowerCase(part)
    IN  CASE p \in {"ctrl", "control"} -> "Ctrl"
          [] p = "shift" -> "Shift"
          [] p \in {"alt", "option"} -> "Alt"
          [] p \in {"cmd", "command", "meta"} -> "Command"
          [] p = "space" -> "Space"
          [] p = "f5" -> "F5"
          [] p = "p" -> "P"
          [] p = "fn" -> "Fn"
          [] OTHER -> p

\* formatHotkey(hotkey)
formatHotkey(hotkey) == [i \in 1..Len(hotkey) |-> formatPart(hotkey[i])]

\* ------------------------------------------------ bytes, text and lines
\* Bytes are one-character strings, except the two bytes of the UTF-8 encoding
\* of a two-byte character: "C3" (lead) and "A9" (continuation).
RECURSIVE toString(_)
\* Buffer.prototype.toString(): UTF-8 decoding of one chunk on its own; a lead
\* byte without its continuation, and a continuation byte without a lead, decode
\* to U+FFFD
toString(data) ==
    IF data = <<>> THEN <<>>
    ELSE IF Head(data) = "C3"
         THEN IF Len(data) >= 2 /\ data[2] = "A9"
              THEN <<"e'">> \o toString(SubSeq(data, 3, Len(data)))
              ELSE <<"FFFD">> \o toString(Tail(data))
    ELSE IF Head(data) = "A9" THEN <<"FFFD">> \o toString(Tail(data))
    ELSE <<Head(data)>> \o toString(Tail(data))

RECURSIVE split(_)
\* String.prototype.split("\n"): the segments between newlines (at least one)
split(str) ==
    IF \A i \in 1..Len(str) : str[i] # "\n" THEN <<str>>
    ELSE LET k == CHOOSE i \in 1..Len(str) :
                      str[i] = "\n" /\ \A j \in 1..(i - 1) : str[j] # "\n"
         IN  <<SubSeq(str, 1, k - 1)>> \o split(SubSeq(str, k + 1, Len(str)))

\* String.prototype.trim()
trim(str) == DropTrailing(DropLeading(str))

\* ------------------------------------------------------------ messages
\* A message of the worker: absent members are "" (<<>> for hotkey and text).
Msg(type, hotkey, mode, state, text) ==
    [type |-> type, hotkey |-> hotkey, mode |-> mode, state |-> state, text |-> text]

NoMsg == Msg("", <<>>, "", "", <<>>)

\* The JSON text of a message is modelled member by member: '{', then for each
\* member a key character and a value ('t' type, 'h' hotkey, 'm' mode, 's' state:
\* one value character each; 'x' text: the characters of the string up to the
\* closing quote), then '}'.
TypeOf == [S |-> "state", T |-> "transcription", L |-> "model_loaded"]
StateOf == [i |-> "idle", y |-> "ready", r |-> "recording", l |-> "listening",
            u |-> "muted", o |-> "stopped"]
ModeOf == [p |-> "push-to-talk", g |-> "toggle-mute"]
HotkeyOf == [a |-> <<"fn">>, b |-> <<"Fn">>, c |-> <<"ctrl", "alt", "p">>, d |-> <<"F5">>]
StringChars == {"w", "e'", "FFFD", " "}

CodeOf(table, value) == CHOOSE k \in DOMAIN table : table[k] = value

\* JSON.stringify of a message (the worker's side of the protocol)
stringify(msg) ==
    <<"{">>
    \o (IF msg.type # "" THEN <<"t", CodeOf(TypeOf, msg.type)>> ELSE <<>>)
    \o (IF msg.hotkey # <<>> THEN <<"h", CodeOf(HotkeyOf, msg.hotkey)>> ELSE <<>>)
    \o (IF msg.mode # "" THEN <<"m", CodeOf(ModeOf, msg.mode)>> ELSE <<>>)
    \o (IF msg.state # "" THEN <<"s", CodeOf(StateOf, msg.state)>> ELSE <<>>)
    \o (IF msg.text # <<>> THEN <<"x">> \o msg.text \o <<"\"">> ELSE <<>>)
    \o <<"}">>

RECURSIVE parseMembers(_, _)
\* the members of an object, left to right; [ok |-> FALSE] is a SyntaxError
parseMembers(str, msg) ==
    IF str = <<>> THEN [ok |-> TRUE, msg |-> msg]
    ELSE IF Len(str) < 2 THEN [ok |-> FALSE]
    ELSE LET key == str[1]
             val == str[2]
             rest == SubSeq(str, 3, Len(str))
         IN  IF key = "t" /\ val \in DOMAIN TypeOf
             THEN parseMembers(rest, [msg EXCEPT !.type = TypeOf[val]])
             ELSE IF key = "h" /\ val \in DOMAIN HotkeyOf
             THEN parseMembers(rest, [msg EXCEPT !.hotkey = HotkeyOf[val]])
             ELSE IF key = "m" /\ val \in DOMAIN ModeOf
             THEN parseMembers(rest, [msg EXCEPT !.mode = ModeOf[val]])
             ELSE IF key = "s" /\ val \in DOMAIN StateOf
             THEN parseMembers(rest, [msg EXCEPT !.state = StateOf[val]])
             ELSE IF key = "x" /\ \E i \in 2..Len(str) : str[i] = "\""
             THEN LET q == CHOOSE i \in 2..Len(str) :
                               str[i] = "\"" /\ \A j \in 2..(i - 1) : str[j] # "\""
                      txt == SubSeq(str, 2, q - 1)
                  IN  IF \A j \in 1..Len(txt) : txt[j] \in StringChars
                      THEN parseMembers(SubSeq(str, q + 1, Len(str)),
                                        [msg EXCEPT !.text = txt])
                      ELSE [ok |-> FALSE]
             ELSE [ok |-> FALSE]

\* JSON.parse(line): [ok |-> TRUE, msg |-> ...], or [ok |-> FALSE] when it throws
JSONparse(line) ==
    LET str == trim(line)
    IN  IF Len(str) >= 2 /\ str[1] = "{" /\ str[Len(str)] = "}"
        THEN parseMembers(SubSeq(str, 2, Len(str) - 1), NoMsg)
        ELSE [ok |-> FALSE]

\* an `error` message for the UI, a `globe_status` message, a worker command
ErrorMsg(message) == Msg("error", <<>>, "", "", <<message>>)
GlobeStatusMsg == Msg("globe_status", <<>>, "", "active", <<>>)
Cmd(action, active, hotkey, mode) ==
    [action |-> action, active |-> active, hotkey |-> hotkey, mode |-> mode]
SetActiveCmd(active) == Cmd("set_active", active, <<>>, "")

\* ------------------------------------------------- orchestrator handlers
\* The handlers are functions of the orchestrator's state `o`: the module
\* variables of main.js, the child processes, the accelerators registered with
\* globalShortcut, the bytes written to the worker's stdin (as commands) and
\* the messages sent to the main window by the handler that is running.

\* mainWindow.webContents.send("backend-message", msg); the window is open
webContentsSend(o, msg) == [o EXCEPT !.sent = Append(@, msg)]

\* a plausible slip: the write is not guarded by the process being tracked
sendToBackend_Unguarded(o, cmd) == [o EXCEPT !.stdin = Append(@, cmd)]

\* sendToBackend(msg)
sendToBackend(o, cmd) ==
    IF o.pythonProcess = "running" THEN [o EXCEPT !.stdin = Append(@, cmd)] ELSE o

\* showPill(state) / hidePill()
showPill(o, state) == [o EXCEPT !.pill = state]
hidePill(o) == [o EXCEPT !.pill = "hidden"]

\* ChildProcess.kill(): SIGTERM to a process that has not exited yet
kill(proc) == IF proc.status = "running" THEN [proc EXCEPT !.status = "killed"] ELSE proc

\* stopGlobeListener()
stopGlobeListener(o) ==
    IF o.globeProcess # 0
    THEN [o EXCEPT !.procs[o.globeProcess] = kill(@), !.globeProcess = 0]
    ELSE o

\* startGlobeListener(): the state afterwards and the value returned
startGlobeListener(o, helper) ==
    LET o1 == stopGlobeListener(o)
    IN  IF helper = "notDarwin" THEN [o |-> o1, started |-> FALSE]
        ELSE IF helper = "noBinary"
        THEN [o |-> webContentsSend(o1, ErrorMsg("Globe key binary not found.")),
              started |-> FALSE]
        ELSE [o |-> [o1 EXCEPT !.procs = Append(@, [status |-> "running", fnDown |-> FALSE]),
                               !.globeProcess = Len(o1.procs) + 1],
              started |-> TRUE]

\* a plausible slip: releasing the binding also ends the session under way
releasePrevious_EndsSession(o, previous) ==
    IF previous # NoHotkey
    THEN LET o1 == [o EXCEPT !.calls = Append(@, [op |-> "release", hotkey |-> previous,
                                                    result |-> "ok"])]
             o2 == IF isGlobeHotkey(previous)
                   THEN stopGlobeListener(o1)
                   ELSE [o1 EXCEPT !.registered = @ \ {formatHotkey(previous)}]
         IN  IF o2.isActive
             THEN sendToBackend([o2 EXCEPT !.isActive = FALSE], SetActiveCmd(FALSE))
             ELSE o2
    ELSE o

\* registerHotkey: "Unregister previous hotkey", for the binding `previous`
releasePrevious(o, previous) ==
    IF previous # NoHotkey
    THEN LET o1 == [o EXCEPT !.calls = Append(@, [op |-> "release", hotkey |-> previous,
                                                    result |-> "ok"])]
         IN  IF isGlobeHotkey(previous)
             THEN stopGlobeListener(o1)
             ELSE [o1 EXCEPT !.registered = @ \ {formatHotkey(previous)}]
    ELSE o

\* registerHotkey: the binding of the new hotkey; `register` is what
\* globalShortcut.register does
registerNew(o, hotkey, register, helper) ==
    IF isGlobeHotkey(hotkey)
    THEN LET r == startGlobeListener(o, helper)
             o1 == [r.o EXCEPT !.calls = Append(@, [op |-> "listen", hotkey |-> hotkey,
                                                     result |-> IF r.started THEN "ok" ELSE "false"])]
         IN  IF ~r.started
             THEN webContentsSend(o1, ErrorMsg("Could not start Globe key listener."))
             ELSE o1
    ELSE LET o1 == [o EXCEPT !.calls = Append(@, [op |-> "register", hotkey |-> hotkey,
                                                   result |-> register])]
         IN  IF register = "ok"
             THEN [o1 EXCEPT !.registered = @ \cup {formatHotkey(hotkey)}]
             ELSE IF register = "false"
             THEN webContentsSend(o1, ErrorMsg("Could not register hotkey."))
             ELSE webContentsSend(o1, ErrorMsg("Invalid hotkey."))

\* a plausible slip: the new hotkey is bound first and the previous binding is
\* released afterwards
registerHotkey_BindsFirst(o, hotkey, register, helper) ==
    releasePrevious(registerNew([o EXCEPT !.currentHotkey = hotkey], hotkey, register, helper),
                    o.currentHotkey)

\* registerHotkey(hotkey)
registerHotkey(o, hotkey, register, helper) ==
    registerNew([releasePrevious(o, o.currentHotkey) EXCEPT !.currentHotkey = hotkey],
                hotkey, register, helper)

\* the callback given to globalShortcut.register
acceleratorCallback(o) ==
    LET newActive == ~o.isActive
    IN  sendToBackend([o EXCEPT !.isActive = newActive], SetActiveCmd(newActive))

\* startGlobeListener: the handling of one line of the listener's stdout
globeLine(o, msg) ==
    IF msg = "READY" THEN webContentsSend(o, GlobeStatusMsg)
    ELSE IF msg = "FN_DOWN"
    THEN IF ~o.isActive
         THEN sendToBackend([o EXCEPT !.isActive = TRUE], SetActiveCmd(TRUE))
         ELSE o
    ELSE IF msg = "FN_UP"
    THEN IF o.isActive
         THEN sendToBackend([o EXCEPT !.isActive = FALSE], SetActiveCmd(FALSE))
         ELSE o
    ELSE o

\* startBackend: `if (msg.type === "state") { ... }`
handleStateMessage(o, msg, register, helper) ==
    LET o1 == IF msg.hotkey # <<>> /\ msg.hotkey # o.currentHotkey
              THEN registerHotkey(o, msg.hotkey, register, helper)
              ELSE o
        o2 == IF msg.mode # "" THEN [o1 EXCEPT !.currentMode = msg.mode] ELSE o1
    IN  IF msg.state \in {"recording", "listening"}
        THEN showPill([o2 EXCEPT !.isActive = TRUE], msg.state)
        ELSE IF msg.state \in {"ready", "muted", "stopped"}
        THEN hidePill([o2 EXCEPT !.isActive = FALSE])
        ELSE o2

\* a plausible slip: a line that does not parse is reported to the UI and the
\* activation is reset
handleLine_SurfaceError(o, line, register, helper) ==
    IF trim(line) = <<>> THEN o
    ELSE LET p == JSONparse(line)
         IN  IF ~p.ok
             THEN webContentsSend([o EXCEPT !.isActive = FALSE], ErrorMsg("Bad line."))
             ELSE LET o1 == webContentsSend(o, p.msg)
                  IN  IF p.msg.type = "state"
                      THEN handleStateMessage(o1, p.msg, register, helper)
                      ELSE o1

\* startBackend: the body of `for (const line of lines)`
handleLine(o, line, register, helper) ==
    IF trim(line) = <<>> THEN o
    ELSE LET p == JSONparse(line)
         IN  IF ~p.ok THEN o
             ELSE LET o1 == webContentsSend(o, p.msg)
                  IN  IF p.msg.type = "state"
                      THEN handleStateMessage(o1, p.msg, register, helper)
                      ELSE o1

RECURSIVE handleLines(_, _, _, _)
\* startBackend: `for (const line of lines) { ... }`
handleLines(o, lines, register, helper) ==
    IF lines = <<>> THEN o
    ELSE handleLines(handleLine(o, Head(lines), register, helper), Tail(lines),
                     register, helper)

\* startBackend: `buffer += data.toString(); lines = buffer.split("\n");
\* buffer = lines.pop()`
splitBuffer(buf, data) ==
    LET segs == split(buf \o toString(data))
    IN  [lines |-> SubSeq(segs, 1, Len(segs) - 1), buffer |-> segs[Len(segs)]]

\* startBackend: pythonProcess.stdout.on("data", ...)
pythonStdoutData(o, data, register, helper) ==
    LET sp == splitBuffer(o.buffer, data)
    IN  handleLines([o EXCEPT !.buffer = sp.buffer], sp.lines, register, helper)

RECURSIVE encode(_)
\* the UTF-8 bytes of a string, as the worker's stdout carries them
encode(str) ==
    IF str = <<>> THEN <<>>
    ELSE IF Head(str) = "e'" THEN <<"C3", "A9">> \o encode(Tail(str))
    ELSE <<Head(str)>> \o encode(Tail(str))

\* one line of the worker's output: JSON text, newline, encoded
Line(msg) == encode(stringify(msg) \o <<"\n">>)

\* --------------------------------------------------- orchestrator state
\* main.js after app.whenReady(): window created, startBackend() done
OInit == [currentHotkey |-> NoHotkey, currentMode |-> "push-to-talk",
          isActive |-> FALSE, pill |-> "hidden", globeProcess |-> 0,
          pythonProcess |-> "running", registered |-> {}, procs |-> <<>>,
          buffer |-> <<>>, stdin |-> <<>>, sent |-> <<>>, calls |-> <<>>]

\* the state a handler starts from: nothing sent to the window yet
O == [currentHotkey |-> currentHotkey, currentMode |-> currentMode,
      isActive |-> isActive, pill |-> pill, globeProcess |-> globeProcess,
      pythonProcess |-> pythonProcess, registered |-> registered,
      procs |-> procs, buffer |-> buffer, stdin |-> stdin, sent |-> <<>>, calls |-> <<>>]

\* the state a handler leaves behind
Commit(o) ==
    /\ currentHotkey' = o.currentHotkey
    /\ currentMode' = o.currentMode
    /\ isActive' = o.isActive
    /\ pill' = o.pill
    /\ globeProcess' = o.globeProcess
    /\ pythonProcess' = o.pythonProcess
    /\ registered' = o.registered
    /\ procs' = o.procs
    /\ buffer' = o.buffer
    /\ stdin' = o.stdin
    /\ sent' = o.sent
    /\ calls' = o.calls

Helpers == {"ok", "noBinary", "notDarwin"}
RegisterResults == {"ok", "false", "throws"}
OrchModes == {"push-to-talk", "toggle-mute"}

\* ------------------------------------------------------------- worker
\* The worker's source is not part of the repository snapshot; it is modelled
\* from the protocol description: it owns mode, hotkey and the activation, it
\* rejects set_active while the engine is not loaded, and it reports every
\* change of its state with a `state` message.
WorkerStateName(w) ==
    IF ~w.loaded THEN "idle"
    ELSE IF w.mode = "push-to-talk"
         THEN (IF w.active THEN "recording" ELSE "ready")
         ELSE (IF w.active THEN "listening" ELSE "muted")

StateMsg(w) == Msg("state", w.hotkey, w.mode, WorkerStateName(w), <<>>)

\* the worker's handling of one command: the worker afterwards and its output
workerHandle(w, cmd) ==
    IF cmd.action = "set_active"
    THEN IF ~w.loaded
         THEN [w |-> [w EXCEPT !.rejected = cmd.active \/ @], out |-> <<>>]
         ELSE IF cmd.active # w.active
         THEN LET w1 == [w EXCEPT !.active = cmd.active]
              IN  [w |-> w1, out |-> <<StateMsg(w1)>>]
         ELSE [w |-> w, out |-> <<>>]
    ELSE IF cmd.action = "set_hotkey"
    THEN LET w1 == [w EXCEPT !.hotkey = cmd.hotkey]
         IN  [w |-> w1, out |-> <<StateMsg(w1)>>]
    ELSE IF cmd.action = "set_mode"
    THEN LET w1 == [w EXCEPT !.mode = cmd.mode]
         IN  [w |-> w1, out |-> <<StateMsg(w1)>>]
    ELSE [w |-> w, out |-> <<>>]

WorkerIdle == [loaded |-> FALSE, active |-> FALSE, mode |-> "push-to-talk",
               hotkey |-> <<"fn">>, rejected |-> FALSE]

\* --------------------------------------------------------- observation
NoCounts ==
    /\ nInputs = 0 /\ nDown = 0 /\ nPairs = 0 /\ nFires = 0
    /\ nSessions = 0 /\ sessOpen = FALSE /\ tgInitial = FALSE
    /\ modeChanged = FALSE

\* the commands a handler wrote to the worker's stdin
NewCmds(o) == SubSeq(o.stdin, Len(stdin) + 1, Len(o.stdin))

\* a session is a set_active true later followed by a set_active false
CountSessions(o) ==
    LET acts == SelectSeq(NewCmds(o), LAMBDA c : c.action = "set_active")
    IN  IF acts = <<>> THEN UNCHANGED <<nSessions, sessOpen>>
        ELSE /\ sessOpen' = acts[1].active
             /\ nSessions' = IF sessOpen /\ ~acts[1].active
                             THEN nSessions + 1 ELSE nSessions

\* ------------------------------------------------------ SpecParse: reader
\* the streams written by the worker: a transcription with a two-byte
\* character; a line that is not JSON and a valid line; two state messages
\* around a blank line; an object that does not parse, a state message that
\* changes the hotkey, and an unterminated rest; a state message, a line that
\* is not JSON, and a transcription
Streams ==
    { Line(Msg("transcription", <<>>, "", "", <<"e'">>)),
      <<"w", "\n">> \o Line(Msg("state", <<>>, "", "recording", <<>>)),
      Line(Msg("state", <<>>, "toggle-mute", "listening", <<>>))
          \o <<" ", "\n">> \o Line(Msg("state", <<>>, "", "muted", <<>>)),
      <<"{", "t", "\n">> \o Line(Msg("state", <<"F5">>, "", "ready", <<>>)) \o <<"{">>,
      Line(Msg("state", <<>>, "", "recording", <<>>)) \o <<"w", "}", "\n">>
          \o Line(Msg("transcription", <<>>, "", "", <<"w">>)) }

\* the orchestrator right after startup
OStart ==
    /\ currentHotkey = OInit.currentHotkey /\ currentMode = OInit.currentMode
    /\ isActive = OInit.isActive /\ pill = OInit.pill
    /\ globeProcess = OInit.globeProcess /\ pythonProcess = OInit.pythonProcess
    /\ registered = OInit.registered /\ procs = OInit.procs
    /\ buffer = OInit.buffer /\ stdin = OInit.stdin /\ sent = OInit.sent
    /\ calls = OInit.calls

\* ========================================= macos-globe-listener.swift
\* The modifier keys modelled; CGEventFlags of an event are the keys held after
\* the transition.
OtherModifiers == {"cmd", "shift"}
ModifierKeys == {"fn"} \cup OtherModifiers

\* The two taps created: eventTap (1), whose pointer is the userInfo of the
\* second and which is never given a run loop source, and eventTapWithInfo (2),
\* the one on the run loop.
TapPointer == 1
RunLoopTap == 2
TapReasons == {"timeout", "userInput"}

\* callback: `let containsFn = flags.contains(.maskSecondaryFn)`
containsFn(flags) == "fn" \in flags

\* callback: `!flags.intersection(otherModifiers).isEmpty`
hasOtherModifier(flags) == flags \cap OtherModifiers # {}

\* a plausible slip: the edge test on fnDown is missing
printsDown_NoEdgeTest(flags, down) == containsFn(flags) /\ ~hasOtherModifier(flags)

\* callback: `if containsFn && !hasOtherModifier && !fnDown`
printsDown(flags, down) == containsFn(flags) /\ ~hasOtherModifier(flags) /\ ~down

\* callback: `else if !containsFn && fnDown`
printsUp(flags, down) == ~printsDown(flags, down) /\ ~containsFn(flags) /\ down

\* callback(type: .flagsChanged): the new fnDown and the tokens printed
callbackFlagsChanged(flags, down) ==
    IF printsDown(flags, down) THEN [fnDown |-> TRUE, out |-> <<"FN_DOWN">>]
    ELSE IF printsUp(flags, down) THEN [fnDown |-> FALSE, out |-> <<"FN_UP">>]
    ELSE [fnDown |-> down, out |-> <<>>]

\* the listener after `print("READY")`, in CFRunLoopRun, no key held
NativeInit ==
    /\ fnDown = FALSE
    /\ emitted = <<>>
    /\ tapEnabled = [t \in {TapPointer, RunLoopTap} |-> TRUE]
    /\ tapNotice = "none"
    /\ held = {}
    /\ nKeyEvents = 0
    /\ pressCombined = FALSE
    /\ downsInPress = 0
    /\ upsInRelease = 0

Count(seq, token) == Cardinality({i \in 1..Len(seq) : seq[i] = token})

\* a modifier key goes down or up; the tap on the run loop, if enabled, calls
\* callback with a flagsChanged event
keyTransition(key) ==
    /\ UNCHANGED <<appVars, orchVars, workerVars, readerVars, countVars, otherVars>>
    /\ nKeyEvents < MaxKeyEvents
    /\ nKeyEvents' = nKeyEvents + 1
    /\ held' = IF key \in held THEN held \ {key} ELSE held \cup {key}
    /\ LET r == IF tapEnabled[RunLoopTap]
                THEN callbackFlagsChanged(held', fnDown)
                ELSE [fnDown |-> fnDown, out |-> <<>>]
           pressed == key = "fn" /\ key \notin held
           released == key = "fn" /\ key \in held
       IN  /\ fnDown' = r.fnDown
           /\ emitted' = emitted \o r.out
           /\ pressCombined' = IF pressed THEN hasOtherModifier(held)
                                ELSE IF released THEN FALSE ELSE pressCombined
           /\ downsInPress' = (IF pressed \/ released THEN 0 ELSE downsInPress)
                                  + Count(r.out, "FN_DOWN")
           /\ upsInRelease' = (IF released THEN 0 ELSE upsInRelease)
                                  + Count(r.out, "FN_UP")
    /\ UNCHANGED <<tapEnabled, tapNotice>>

\* the OS disables an enabled tap; a tap with a run loop source gets a
\* tapDisabledByTimeout / tapDisabledByUserInput event for its callback
osDisablesTap(tap, reason) ==
    /\ UNCHANGED <<appVars, orchVars, workerVars, readerVars, countVars, otherVars>>
    /\ tapEnabled[tap]
    /\ tapNotice = "none"
    /\ tapEnabled' = [tapEnabled EXCEPT ![tap] = FALSE]
    /\ tapNotice' = IF tap = RunLoopTap THEN reason ELSE "none"
    /\ UNCHANGED <<fnDown, emitted, held, nKeyEvents, pressCombined,
                   downsInPress, upsInRelease>>

\* callback(type: .tapDisabledByTimeout / .tapDisabledByUserInput):
\* `CGEvent.tapEnable(tap: tap, enable: true)` on the tap behind refcon
callbackTapDisabled ==
    /\ UNCHANGED <<appVars, orchVars, workerVars, readerVars, countVars, otherVars>>
    /\ tapNotice \in TapReasons
    /\ tapEnabled' = [tapEnabled EXCEPT ![TapPointer] = TRUE]
    /\ tapNotice' = "none"
    /\ UNCHANGED <<fnDown, emitted, held, nKeyEvents, pressCombined,
                   downsInPress, upsInRelease>>

GlobeNext ==
    \/ \E key \in ModifierKeys : keyTransition(key)
    \/ \E tap \in {TapPointer, RunLoopTap}, reason \in TapReasons :
          osDisablesTap(tap, reason)
    \/ callbackTapDisabled

\* nothing of the orchestrator, the worker or the reader is exercised
OrchIdle ==
    /\ OStart /\ NoCounts
    /\ machine = "ok" /\ worker = WorkerIdle /\ stdout = <<>>
    /\ stream = <<>> /\ pos = 0 /\ forwarded = <<>> /\ linesSeen = <<>>

ParseInit ==
    /\ OStart /\ NoCounts
    /\ machine = "ok" /\ worker = WorkerIdle /\ stdout = <<>>
    /\ stream \in Streams /\ pos = 0 /\ forwarded = <<>> /\ linesSeen = <<>>

\* pythonProcess.stdout.on("data"): the next k bytes of the stream arrive
readerData ==
    /\ UNCHANGED <<appVars, sideVars>>
    /\ pos < Len(stream)
    /\ \E k \in 1..(Len(stream) - pos) :
          LET data == SubSeq(stream, pos + 1, pos + k)
              o == pythonStdoutData(O, data, "ok", machine)
          IN  /\ Commit(o)
              /\ pos' = pos + k
              /\ forwarded' = forwarded \o
                    [i \in 1..Len(o.sent) |->
                        [msg |-> o.sent[i], from |-> pos, to |-> pos + k]]
              /\ linesSeen' = linesSeen \o splitBuffer(buffer, data).lines
    /\ UNCHANGED <<machine, stream, workerVars, countVars>>

ParseNext == readerData

\* ------------------------------------------------- SpecOrch: orchestrator
\* the worker's configuration before the run, and what it has written by the
\* time the orchestrator first reads: its first state message, and its second
\* when the engine was quick to load
WorkerStart(mode, hotkey) == [WorkerIdle EXCEPT !.mode = mode, !.hotkey = hotkey]

OrchInit ==
    /\ OStart /\ NoCounts
    /\ \E m \in OrchModes, h \in OrchHotkeys, loaded \in BOOLEAN :
          /\ worker = [WorkerStart(m, h) EXCEPT !.loaded = loaded]
          /\ stdout = <<StateMsg(WorkerStart(m, h))>>
                       \o (IF loaded THEN <<StateMsg(worker)>> ELSE <<>>)
          /\ machine \in (IF h = <<"fn">> /\ m = "push-to-talk" THEN Helpers ELSE {"ok"})
    /\ stream = <<>> /\ pos = 0 /\ forwarded = <<>> /\ linesSeen = <<>>

\* pythonProcess.stdout.on("data"): one line of the worker arrives
pythonStdout ==
    /\ UNCHANGED <<appVars, sideVars>>
    /\ pythonProcess = "running"
    /\ stdout # <<>>
    /\ \E register \in (IF isGlobeHotkey(Head(stdout).hotkey)
                         \/ Head(stdout).hotkey = currentHotkey
                         THEN {"ok"} ELSE RegisterResults) :
          Commit(pythonStdoutData(O, Line(Head(stdout)), register, machine))
    /\ stdout' = Tail(stdout)
    /\ UNCHANGED <<machine, worker, readerVars, countVars>>

\* pythonProcess.on("close"): the worker exited
pythonClose ==
    /\ UNCHANGED <<appVars, sideVars>>
    /\ pythonProcess = "running"
    /\ nInputs < MaxInputs
    /\ nInputs' = nInputs + 1
    /\ pythonProcess' = "null"
    /\ stdin' = <<>> /\ stdout' = <<>> /\ sent' = <<>> /\ calls' = <<>>
    /\ UNCHANGED <<currentHotkey, currentMode, isActive, pill, globeProcess,
                   registered, procs, buffer, machine, worker, readerVars,
                   nDown, nPairs, nFires, nSessions, sessOpen, tgInitial,
                   modeChanged>>

\* globeProcess.stdout.on("data") of listener pid: the next edge of the key
globeStdout(pid) ==
    /\ UNCHANGED <<appVars, sideVars>>
    /\ procs[pid].status = "running"
    /\ Len(stdin) < MaxPipe
    /\ LET down == ~procs[pid].fnDown
           o == globeLine([O EXCEPT !.procs[pid].fnDown = down],
                          IF down THEN "FN_DOWN" ELSE "FN_UP")
       IN  /\ down => nInputs < MaxInputs
           /\ Commit(o)
           /\ CountSessions(o)
           /\ nInputs' = IF down THEN nInputs + 1 ELSE nInputs
           /\ nDown' = IF down THEN nDown + 1 ELSE nDown
           /\ nPairs' = IF down THEN nPairs ELSE nPairs + 1
    /\ UNCHANGED <<machine, workerVars, readerVars, nFires, tgInitial, modeChanged>>

\* globeProcess.on("close") of listener pid, which was killed
globeClose(pid) ==
    /\ UNCHANGED <<appVars, sideVars>>
    /\ procs[pid].status = "killed"
    /\ procs' = [procs EXCEPT ![pid].status = "closed"]
    /\ globeProcess' = 0
    /\ sent' = <<>> /\ calls' = <<>>
    /\ UNCHANGED <<currentHotkey, currentMode, isActive, pill, pythonProcess,
                   registered, buffer, stdin, machine, workerVars, readerVars,
                   countVars>>

\* the OS fires a registered accelerator
acceleratorFire ==
    /\ UNCHANGED <<appVars, sideVars>>
    /\ registered # {}
    /\ nInputs < MaxInputs
    /\ Len(stdin) < MaxPipe
    /\ LET o == acceleratorCallback(O)
       IN  Commit(o) /\ CountSessions(o)
    /\ nInputs' = nInputs + 1
    /\ nFires' = nFires + 1
    /\ tgInitial' = IF nFires = 0 THEN isActive ELSE tgInitial
    /\ UNCHANGED <<machine, workerVars, readerVars, nDown, nPairs, modeChanged>>

\* ipcMain.on("update-hotkey")
ipcUpdateHotkey(hotkey) ==
    /\ UNCHANGED <<appVars, sideVars>>
    /\ hotkey # currentHotkey
    /\ nInputs < MaxInputs
    /\ Len(stdin) < MaxPipe
    /\ Commit(sendToBackend(O, Cmd("set_hotkey", FALSE, hotkey, "")))
    /\ nInputs' = nInputs + 1
    /\ UNCHANGED <<machine, workerVars, readerVars, nDown, nPairs, nFires,
                   nSessions, sessOpen, tgInitial, modeChanged>>

\* ipcMain.on("send-command") with the renderer's set_mode command
ipcSendCommand(mode) ==
    /\ UNCHANGED <<appVars, sideVars>>
    /\ mode # currentMode
    /\ nInputs < MaxInputs
    /\ Len(stdin) < MaxPipe
    /\ Commit(sendToBackend(O, Cmd("set_mode", FALSE, <<>>, mode)))
    /\ nInputs' = nInputs + 1
    /\ modeChanged' = TRUE
    /\ UNCHANGED <<machine, workerVars, readerVars, nDown, nPairs, nFires,
                   nSessions, sessOpen, tgInitial>>

\* the worker takes the next command from its stdin
workerStep ==
    /\ UNCHANGED <<appVars, sideVars>>
    /\ pythonProcess = "running"
    /\ stdin # <<>>
    /\ Len(stdout) < MaxPipe
    /\ LET r == workerHandle(worker, Head(stdin))
       IN  worker' = r.w /\ stdout' = stdout \o r.out
    /\ stdin' = Tail(stdin)
    /\ UNCHANGED <<currentHotkey, currentMode, isActive, pill, globeProcess,
                   pythonProcess, registered, procs, buffer, sent, calls, machine,
                   readerVars, countVars>>

\* the worker's engine finishes loading
workerModelLoaded ==
    /\ UNCHANGED <<appVars, sideVars>>
    /\ pythonProcess = "running"
    /\ ~worker.loaded
    /\ Len(stdout) < MaxPipe
    /\ nInputs < MaxInputs
    /\ nInputs' = nInputs + 1
    /\ worker' = [worker EXCEPT !.loaded = TRUE]
    /\ stdout' = Append(stdout, StateMsg(worker'))
    /\ UNCHANGED <<orchVars, readerVars, nDown, nPairs, nFires, nSessions,
                   sessOpen, tgInitial, modeChanged>>

OrchNext ==
    \/ pythonStdout
    \/ pythonClose
    \/ \E pid \in 1..Len(procs) : globeStdout(pid)
    \/ \E pid \in 1..Len(procs) : globeClose(pid)
    \/ acceleratorFire
    \/ \E hotkey \in OrchHotkeys : ipcUpdateHotkey(hotkey)
    \/ \E mode \in OrchModes : ipcSendCommand(mode)
    \/ workerStep
    \/ workerModelLoaded

\* ======================================================= main.js: shutdown
\* the grace period of will-quit, in seconds
Grace == 2
NoTimer == -1

\* a plausible slip: the kill is scheduled without a delay
armKillTimer_NoGrace(now) == now

\* setTimeout(..., 2000) of will-quit: when the callback is due
armKillTimer(now) == now + Grace

\* nothing of a shutdown has happened
QuitIdle ==
    /\ appPhase = "running" /\ clock = 0 /\ killTimer = NoTimer
    /\ workerProc = "running" /\ quitWrites = 0 /\ termAt = NoTimer /\ quitAt = NoTimer

\* the quit messages among the commands a handler wrote to the worker
QuitsWritten(o) ==
    Cardinality({i \in (Len(stdin) + 1)..Len(o.stdin) : o.stdin[i].action = "quit"})

\* the application some time after startup: a hotkey bound by the listener or
\* by an accelerator, a session active or not, the worker alive or gone
QuitInit ==
    /\ NoCounts
    /\ \E h \in OrchHotkeys, m \in OrchModes, a \in BOOLEAN, alive \in BOOLEAN :
          /\ currentHotkey = h /\ currentMode = m /\ isActive = a
          /\ pill = (IF ~a THEN "hidden"
                     ELSE IF m = "push-to-talk" THEN "recording" ELSE "listening")
          /\ procs = (IF isGlobeHotkey(h)
                      THEN <<[status |-> "running", fnDown |-> FALSE]>> ELSE <<>>)
          /\ globeProcess = Len(procs)
          /\ registered = (IF isGlobeHotkey(h) THEN {} ELSE {formatHotkey(h)})
          /\ pythonProcess = (IF alive THEN "running" ELSE "null")
          /\ workerProc = (IF alive THEN "running" ELSE "exited")
          /\ worker = [WorkerStart(m, h) EXCEPT !.loaded = TRUE, !.active = a]
    /\ buffer = <<>> /\ stdin = <<>> /\ sent = <<>> /\ calls = <<>>
    /\ machine \in {"ok", "notDarwin"} /\ stdout = <<>>
    /\ stream = <<>> /\ pos = 0 /\ forwarded = <<>> /\ linesSeen = <<>>
    /\ appPhase = "running" /\ clock = 0 /\ killTimer = NoTimer
    /\ quitWrites = 0 /\ termAt = NoTimer /\ quitAt = NoTimer

\* app.on("window-all-closed"); app.quit() is followed by will-quit
windowAllClosed ==
    /\ UNCHANGED <<appVars, nativeVars, rendererVars, tapVars, attachVars, formatVars>>
    /\ appPhase = "running"
    /\ LET o == stopGlobeListener(hidePill(sendToBackend(O, Cmd("quit", FALSE, <<>>, ""))))
       IN  /\ Commit(o)
           /\ quitWrites' = quitWrites + QuitsWritten(o)
    /\ appPhase' = IF machine = "notDarwin" THEN "quit-requested" ELSE "windows-closed"
    /\ UNCHANGED <<machine, workerVars, readerVars, countVars, clock, killTimer,
                   workerProc, termAt, quitAt>>

\* app.on("will-quit")
willQuit ==
    /\ UNCHANGED <<appVars, nativeVars, rendererVars, tapVars, attachVars, formatVars>>
    /\ appPhase \in {"running", "windows-closed", "quit-requested"}
    /\ LET o1 == stopGlobeListener(hidePill([O EXCEPT !.registered = {}]))
           o2 == IF o1.pythonProcess # "null"
                 THEN sendToBackend(o1, Cmd("quit", FALSE, <<>>, ""))
                 ELSE o1
       IN  /\ Commit(o2)
           /\ quitWrites' = quitWrites + QuitsWritten(o2)
           /\ quitAt' = clock
           /\ killTimer' = IF o1.pythonProcess # "null"
                           THEN armKillTimer(clock) ELSE killTimer
    /\ appPhase' = "quitting"
    /\ UNCHANGED <<machine, workerVars, readerVars, countVars, clock, workerProc,
                   termAt>>

\* the timer callback of will-quit: `if (pythonProcess) pythonProcess.kill()`;
\* kill() terminates a process that has not exited
quitTimeout ==
    /\ UNCHANGED <<appVars, nativeVars, rendererVars, tapVars, attachVars, formatVars>>
    /\ appPhase = "quitting"
    /\ killTimer # NoTimer /\ clock >= killTimer
    /\ killTimer' = NoTimer
    /\ IF pythonProcess # "null" /\ workerProc = "running"
       THEN workerProc' = "terminated" /\ termAt' = clock
       ELSE UNCHANGED <<workerProc, termAt>>
    /\ UNCHANGED <<orchVars, workerVars, readerVars, countVars, appPhase, clock,
                   quitWrites, quitAt>>

\* the worker process ends by itself: it has read quit, or it failed
workerExits ==
    /\ UNCHANGED <<appVars, nativeVars, rendererVars, tapVars, attachVars, formatVars>>
    /\ workerProc = "running"
    /\ workerProc' = "exited"
    /\ UNCHANGED <<orchVars, workerVars, readerVars, countVars, appPhase, clock,
                   killTimer, quitWrites, termAt, quitAt>>

\* pythonProcess.on("close") for a worker that has ended
closeEvent ==
    /\ UNCHANGED <<appVars, nativeVars, rendererVars, tapVars, attachVars, formatVars>>
    /\ appPhase # "gone"
    /\ workerProc # "running" /\ pythonProcess # "null"
    /\ pythonProcess' = "null"
    /\ sent' = <<>> /\ calls' = <<>>
    /\ UNCHANGED <<currentHotkey, currentMode, isActive, pill, globeProcess,
                   registered, procs, buffer, stdin, machine, workerVars,
                   readerVars, countVars, quitVars>>

\* a second passes
tick ==
    /\ UNCHANGED <<appVars, nativeVars, rendererVars, tapVars, attachVars, formatVars>>
    /\ clock < MaxClock
    /\ clock' = clock + 1
    /\ UNCHANGED <<orchVars, workerVars, readerVars, countVars, appPhase,
                   killTimer, workerProc, quitWrites, termAt, quitAt>>

\* the application's process ends after will-quit; its timers end with it
appExits ==
    /\ UNCHANGED <<appVars, nativeVars, rendererVars, tapVars, attachVars, formatVars>>
    /\ appPhase = "quitting"
    /\ appPhase' = "gone"
    /\ UNCHANGED <<orchVars, workerVars, readerVars, countVars, clock, killTimer,
                   workerProc, quitWrites, termAt, quitAt>>

QuitNext ==
    \/ windowAllClosed
    \/ willQuit
    \/ quitTimeout
    \/ workerExits
    \/ closeEvent
    \/ tick
    \/ appExits

\* ============================================================ renderer.js
\* the messages the window receives on "backend-message"
RendererStates == {"idle", "ready", "recording", "listening", "muted", "stopped", "quit"}
RendererMsgs ==
    [type : {"state"}, state : RendererStates]
    \cup [type : {"transcription", "model_loading", "model_loaded", "status",
                  "devices", "error"}, state : {""}]

\* the device list of a `devices` message: Mic A and Mic B
Devices == <<[index |-> 0, name |-> "Mic A"], [index |-> 1, name |-> "Mic B"]>>

\* option.value = dev.index: the index as a string; parseInt(val, 10) back
IndexString(index) == IF index = 0 THEN "0" ELSE "1"
parseInt(val) == IF val = "0" THEN 0 ELSE 1

\* `device: null`, and the device of a command that has none
NoDevice == -1

\* a command as window.listen.send gets it; `change` notes which change of
\* the dropdown caused it, 0 for none
RCmd(action, device, change) == [action |-> action, device |-> device, change |-> change]

\* the renderer when its script has run
RendererInit ==
    /\ modelLoaded = FALSE /\ currentState = "idle"
    /\ deviceOptions = {""} /\ deviceValue = ""
    /\ rsent = <<>> /\ startTimers = <<>>
    /\ changeLog = <<>> /\ nMsgs = 0

\* handleState: the status set and the commands sent for msg.state
handleState(state) ==
    IF state = "idle"
    THEN [status |-> "loading",
          out |-> <<RCmd("get_devices", NoDevice, 0), RCmd("download_model", NoDevice, 0)>>]
    ELSE IF state \in {"stopped", "quit"} THEN [status |-> "ready", out |-> <<>>]
    ELSE [status |-> state, out |-> <<>>]

\* window.listen.onMessage
onMessage(msg) ==
    /\ UNCHANGED <<appVars, orchVars, workerVars, readerVars, countVars, nativeVars, quitVars,
                   tapVars, attachVars, formatVars>>
    /\ nMsgs < MaxMsgs
    /\ nMsgs' = nMsgs + 1
    /\ modelLoaded' = (modelLoaded \/ msg.type = "model_loaded")
    /\ currentState' =
          IF msg.type = "state" THEN handleState(msg.state).status
          ELSE IF msg.type \in {"model_loading", "status"} THEN "loading"
          ELSE IF msg.type = "model_loaded" THEN "ready"
          ELSE IF msg.type = "error" THEN "error"
          ELSE currentState
    /\ rsent' = rsent \o
          (IF msg.type = "state" THEN handleState(msg.state).out
           ELSE IF msg.type = "model_loaded" THEN <<RCmd("start", NoDevice, 0)>>
           ELSE <<>>)
    /\ IF msg.type = "devices"
       THEN /\ deviceOptions' = {""} \cup {IndexString(Devices[i].index) : i \in 1..Len(Devices)}
            /\ deviceValue' = ""
       ELSE UNCHANGED <<deviceOptions, deviceValue>>
    /\ UNCHANGED <<startTimers, changeLog>>

\* a plausible slip: a new device change replaces the start that is pending
scheduleStart_Debounced(timers, change) == <<change>>

\* setTimeout(() => send start, 500): timers of one delay run in the order set
scheduleStart(timers, change) == Append(timers, change)

\* deviceSelect "change": the user picks another option
deviceChange(val) ==
    /\ UNCHANGED <<appVars, orchVars, workerVars, readerVars, countVars, nativeVars, quitVars,
                   tapVars, attachVars, formatVars>>
    /\ Len(changeLog) < MaxChanges
    /\ val \in deviceOptions /\ val # deviceValue
    /\ deviceValue' = val
    /\ LET change == Len(changeLog) + 1
           device == IF val = "" THEN NoDevice ELSE parseInt(val)
       IN  /\ changeLog' = Append(changeLog, [loaded |-> modelLoaded, state |-> currentState,
                                              device |-> device])
           /\ rsent' = rsent \o <<RCmd("set_device", device, change)>>
                             \o (IF modelLoaded THEN <<RCmd("stop", NoDevice, change)>> ELSE <<>>)
           /\ startTimers' = IF modelLoaded THEN scheduleStart(startTimers, change)
                             ELSE startTimers
    /\ UNCHANGED <<modelLoaded, currentState, deviceOptions, nMsgs>>

\* the callback of the device listener's setTimeout runs
startTimeout ==
    /\ UNCHANGED <<appVars, orchVars, workerVars, readerVars, countVars, nativeVars, quitVars,
                   tapVars, attachVars, formatVars>>
    /\ startTimers # <<>>
    /\ rsent' = Append(rsent, RCmd("start", NoDevice, Head(startTimers)))
    /\ startTimers' = Tail(startTimers)
    /\ UNCHANGED <<modelLoaded, currentState, deviceOptions, deviceValue, changeLog, nMsgs>>

RendererNext ==
    \/ \E msg \in RendererMsgs : onMessage(msg)
    \/ \E val \in {"", "0", "1"} : deviceChange(val)
    \/ startTimeout

\* ================================ AudioCaptureService: the tap block's signals
\* Float samples are held in hundredths of full scale, and a Float product is
\* rounded to the nearest hundredth.
SampleValues == {-40, 0, 40}

\* inputFormat.sampleRate of the devices modelled, and buffer.frameLength
SampleRates == {16000, 44100, 48000}
FrameCounts == {0, 2, 3, 4096}
TargetRate == 16000

\* Float.pi as a fraction
PiNum == 355
PiDen == 113

\* the nearest integer to a / b, for b > 0
RoundDiv(a, b) ==
    IF a >= 0 THEN (2 * a + b) \div (2 * b) ELSE -((2 * (-a) + b) \div (2 * b))

\* highPassAlpha(cutoff:sampleRate:): rc / (rc + dt), as a fraction
highPassAlpha(cutoff, sampleRate) ==
    [num |-> sampleRate * PiDen, den |-> sampleRate * PiDen + 2 * PiNum * cutoff]

hpAlpha == highPassAlpha(80, TargetRate)

\* a plausible slip: the frame count is multiplied by the ratio
outputFrames_Multiplied(frameLength, sampleRate) == (frameLength * sampleRate) \div TargetRate

\* AVAudioFrameCount(Double(buffer.frameLength) / ratio), ratio = sampleRate / 16000:
\* the quotient truncated (the Double quotient of the rates and lengths modelled
\* truncates to the same count as the exact one)
outputFrames(frameLength, sampleRate) == (frameLength * TargetRate) \div sampleRate

\* a plausible slip: the previous input is not subtracted
hpStep_NoPrevInput(prevOut, x, prevIn) ==
    RoundDiv(hpAlpha.num * (prevOut + x), hpAlpha.den)

\* prevOut = hpAlpha * (prevOut + x - prevIn)
hpStep(prevOut, x, prevIn) ==
    RoundDiv(hpAlpha.num * (prevOut + x - prevIn), hpAlpha.den)

\* the high-pass loop over `samples`: the filtered samples and the state left
RECURSIVE highPass(_, _, _)
highPass(samples, prevIn, prevOut) ==
    IF samples = <<>>
    THEN [samples |-> <<>>, prevIn |-> prevIn, prevOut |-> prevOut]
    ELSE LET y == hpStep(prevOut, Head(samples), prevIn)
             r == highPass(Tail(samples), Head(samples), y)
         IN  [r EXCEPT !.samples = <<y>> \o @]

\* vDSP_rmsqv: the root of the mean of the squares, to the hundredth below
RECURSIVE SumSquares(_)
SumSquares(samples) ==
    IF samples = <<>> THEN 0 ELSE Head(samples) * Head(samples) + SumSquares(Tail(samples))
Abs(x) == IF x < 0 THEN -x ELSE x
rmsqv(samples) ==
    LET mean == SumSquares(samples) \div Len(samples)
        top == CHOOSE m \in {Abs(samples[i]) : i \in 1..Len(samples)} :
                   \A i \in 1..Len(samples) : Abs(samples[i]) <= m
    IN  CHOOSE r \in 0..top : r * r <= mean /\ mean < (r + 1) * (r + 1)

\* AppState.startRecording, the onBuffer closure
onBufferAppend(buffered, block) ==
    IF Len(block) > 0 THEN buffered \o block ELSE buffered

NoTap == [frames |-> 0, outputFrames |-> 0, stage |-> "none", converted |-> <<>>,
          prevIn |-> 0, prevOut |-> 0, filtered |-> <<>>, level |-> 0]

\* no capture has been started
TapIdle ==
    /\ inputRate = 0 /\ hpPrevInput = 0 /\ hpPrevOutput = 0 /\ chunkCount = 0
    /\ sessionSamples = <<>> /\ lastTap = NoTap /\ filteredAll = <<>> /\ nTapBlocks = 0

\* startRecording with AudioCaptureService.start() done: buffer emptied, filter
\* state and chunkCount reset, tap installed on an input of some rate
TapInit ==
    /\ inputRate \in SampleRates /\ hpPrevInput = 0 /\ hpPrevOutput = 0 /\ chunkCount = 0
    /\ sessionSamples = <<>> /\ lastTap = NoTap /\ filteredAll = <<>> /\ nTapBlocks = 0

\* outputBuffer.frameLength after convert: the capacity, of which the first
\* MaxFrames frames are followed
ConvertedLen(frames) ==
    LET n == outputFrames(frames, inputRate)
    IN  IF n < MaxFrames THEN n ELSE MaxFrames

AllOthersUnchangedByTap ==
    UNCHANGED <<appVars, orchVars, workerVars, readerVars, countVars, nativeVars,
                quitVars, rendererVars, attachVars, formatVars>>

\* the tap block for a hardware block of `frames` frames; the converter fails,
\* or fills outputBuffer with `converted`
tapBlock(frames, failed, converted) ==
    /\ AllOthersUnchangedByTap
    /\ nTapBlocks < MaxTapBlocks
    /\ nTapBlocks' = nTapBlocks + 1
    /\ LET n == outputFrames(frames, inputRate)
           seen == [NoTap EXCEPT !.frames = frames, !.outputFrames = n,
                                 !.prevIn = hpPrevInput, !.prevOut = hpPrevOutput]
       IN  IF n = 0
           THEN /\ lastTap' = [seen EXCEPT !.stage = "no frames"]
                /\ UNCHANGED <<hpPrevInput, hpPrevOutput, chunkCount, sessionSamples,
                               filteredAll>>
           ELSE IF failed
           THEN /\ lastTap' = [seen EXCEPT !.stage = "converter error"]
                /\ UNCHANGED <<hpPrevInput, hpPrevOutput, chunkCount, sessionSamples,
                               filteredAll>>
           ELSE /\ Len(converted) = ConvertedLen(frames)
                /\ sessionSamples' = onBufferAppend(sessionSamples, converted)
                /\ LET f == highPass(converted, hpPrevInput, hpPrevOutput)
                   IN  /\ hpPrevInput' = f.prevIn
                       /\ hpPrevOutput' = f.prevOut
                       /\ filteredAll' = filteredAll \o f.samples
                       /\ lastTap' = [seen EXCEPT !.stage = "done",
                                                  !.converted = converted,
                                                  !.filtered = f.samples,
                                                  !.level = rmsqv(f.samples)]
                /\ chunkCount' = chunkCount + 1
    /\ UNCHANGED inputRate

\* stopRecording and the next startRecording: the buffer is emptied, and
\* start() resets the filter state and chunkCount
tapRestart ==
    /\ AllOthersUnchangedByTap
    /\ nTapBlocks > 0 /\ nTapBlocks < MaxTapBlocks
    /\ lastTap # NoTap
    /\ nTapBlocks' = nTapBlocks + 1
    /\ hpPrevInput' = 0 /\ hpPrevOutput' = 0 /\ chunkCount' = 0
    /\ sessionSamples' = <<>> /\ filteredAll' = <<>> /\ lastTap' = NoTap
    /\ UNCHANGED inputRate

Blocks(len) == [1..len -> SampleValues]

TapNext ==
    \/ \E frames \in FrameCounts :
          \E converted \in Blocks(ConvertedLen(frames)) : tapBlock(frames, FALSE, converted)
    \/ \E frames \in FrameCounts : outputFrames(frames, inputRate) > 0 /\ tapBlock(frames, TRUE, <<>>)
    \/ tapRestart

\* ------------------------------------------------------ specifications
AppNext ==
    \/ bootstrapBegin
    \/ bootstrapLoaded
    \/ bootstrapFailed
    \/ \E active \in BOOLEAN : setActive(active)
    \/ toggleRecording
    \/ configChange
    \/ tapDeliver
    \/ tapAppend
    \/ transcribeReturns
    \/ transcribeThrows

\* AppState after many sessions: the model is loaded, nothing is being
\* recorded, the history holds a few entries less than the limit or is full
\* (entries alternate between two texts), and the Tasks of the last sessions
\* ====================== AudioCaptureService: start, stop and the tap block
\* a plausible slip: the filter state is reset before the guard on isRunning
resetsFilter_BeforeGuard(a, outcome) == outcome # "converterFail"

\* start(): `hpPrevInput = 0; hpPrevOutput = 0; ... chunkCount = 0` is reached
\* past `guard !isRunning` and past the throw for the converter
resetsFilter(a, outcome) == ~a.isRunning /\ outcome # "converterFail"

\* the input device of the run: 48 kHz, so that a hardware block of 3 frames
\* resamples to one frame
CaptureInit ==
    /\ inputRate = 48000 /\ hpPrevInput = 0 /\ hpPrevOutput = 0 /\ chunkCount = 0
    /\ sessionSamples = <<>> /\ lastTap = NoTap /\ filteredAll = <<>> /\ nTapBlocks = 0

CaptureOthersUnchanged ==
    UNCHANGED <<orchVars, workerVars, readerVars, countVars, nativeVars, quitVars,
                rendererVars, attachVars, formatVars, isRecording, isModelLoaded, isModelLoading,
                statusText, lastTranscription, transcriptions, errorMessage, config,
                audioSamples, bootPC, tapPending, tasks, nextBlock, dispatched,
                inserted, inputRate, sessionSamples, lastTap, filteredAll, nTapBlocks>>

\* start(), called with onBuffer set; `outcome` is what the platform does
captureStart(outcome) ==
    /\ CaptureOthersUnchanged
    /\ ~crashed
    /\ ~acs.isRunning => session < MaxSessions
    /\ LET r == AudioCaptureService_start([acs EXCEPT !.onBuffer = session + 1], outcome)
       IN  /\ acs' = r.acs
           /\ crashed' = r.crash
           /\ lastCall' = [op |-> "start", outcome |-> outcome, threw |-> r.threw,
                           wasRunning |-> acs.isRunning]
    /\ session' = IF acs.isRunning THEN session ELSE session + 1
    /\ IF resetsFilter(acs, outcome)
       THEN hpPrevInput' = 0 /\ hpPrevOutput' = 0 /\ chunkCount' = 0
       ELSE UNCHANGED <<hpPrevInput, hpPrevOutput, chunkCount>>

\* stop()
captureStop ==
    /\ CaptureOthersUnchanged
    /\ ~crashed
    /\ lastCall.op # "stop"
    /\ acs' = AudioCaptureService_stop(acs)
    /\ lastCall' = [op |-> "stop", wasRunning |-> acs.isRunning]
    /\ UNCHANGED <<crashed, session, hpPrevInput, hpPrevOutput, chunkCount>>

\* the audio thread runs the tap block: the engine runs, the tap is installed
\* and the converter is set
captureBlock(frames, failed, converted) ==
    /\ ~crashed
    /\ acs.engineRunning /\ acs.taps > 0 /\ acs.converter
    /\ tapBlock(frames, failed, converted)

CaptureNext ==
    \/ \E outcome \in StartOutcomes : captureStart(outcome)
    \/ captureStop
    \/ \E frames \in {0, 3} :
          \E converted \in Blocks(ConvertedLen(frames)) : captureBlock(frames, FALSE, converted)
    \/ captureBlock(3, TRUE, <<>>)

\* ======================================== formatHotkey on hotkey strings
\* Strings are sequences of characters. The letters whose case is mapped, and
\* the sharp s, whose upper case is two characters.
UpperLetters ==
    <<"A", "B", "C", "D", "E", "F", "G", "H", "I", "J", "K", "L", "M",
      "N", "O", "P", "Q", "R", "S", "T", "U", "V", "W", "X", "Y", "Z">>
LowerLetters ==
    <<"a", "b", "c", "d", "e", "f", "g", "h", "i", "j", "k", "l", "m",
      "n", "o", "p", "q", "r", "s", "t", "u", "v", "w", "x", "y", "z">>
Digits == {"0", "1", "2", "3", "4", "5", "6", "7", "8", "9"}
SharpS == "sz"       \* the one character U+00DF

LowerOf(c) ==
    IF \E i \in 1..26 : UpperLetters[i] = c
    THEN LowerLetters[CHOOSE i \in 1..26 : UpperLetters[i] = c] ELSE c
UpperOf(c) ==
    IF c = SharpS THEN <<"S", "S">>
    ELSE IF \E i \in 1..26 : LowerLetters[i] = c
    THEN <<UpperLetters[CHOOSE i \in 1..26 : LowerLetters[i] = c]>> ELSE <<c>>

\* String.prototype.toLowerCase / toUpperCase
toLowerCaseText(str) == [i \in 1..Len(str) |-> LowerOf(str[i])]
RECURSIVE toUpperCaseText(_)
toUpperCaseText(str) ==
    IF str = <<>> THEN <<>> ELSE UpperOf(Head(str)) \o toUpperCaseText(Tail(str))

RECURSIVE splitPlus(_)
\* String.prototype.split("+")
splitPlus(str) ==
    IF \A i \in 1..Len(str) : str[i] # "+" THEN <<str>>
    ELSE LET k == CHOOSE i \in 1..Len(str) :
                      str[i] = "+" /\ \A j \in 1..(i - 1) : str[j] # "+"
         IN  <<SubSeq(str, 1, k - 1)>> \o splitPlus(SubSeq(str, k + 1, Len(str)))

RECURSIVE joinPlus(_)
\* Array.prototype.join("+")
joinPlus(parts) ==
    IF parts = <<>> THEN <<>>
    ELSE IF Len(parts) = 1 THEN parts[1]
    ELSE parts[1] \o <<"+">> \o joinPlus(Tail(parts))

\* the `if (p === ...) return ...` lines of formatHotkey, in their order
TokenTable ==
    << [keys |-> {<<"c", "t", "r", "l">>, <<"c", "o", "n", "t", "r", "o", "l">>}, token |-> <<"C", "t", "r", "l">>],
       [keys |-> {<<"s", "h", "i", "f", "t">>}, token |-> <<"S", "h", "i", "f", "t">>],
       [keys |-> {<<"a", "l", "t">>, <<"o", "p", "t", "i", "o", "n">>}, token |-> <<"A", "l", "t">>],
       [keys |-> {<<"c", "m", "d">>, <<"c", "o", "m", "m", "a", "n", "d">>, <<"m", "e", "t", "a">>}, token |-> <<"C", "o", "m", "m", "a", "n", "d">>],
       [keys |-> {<<"s", "p", "a", "c", "e">>}, token |-> <<"S", "p", "a", "c", "e">>],
       [keys |-> {<<"t", "a", "b">>}, token |-> <<"T", "a", "b">>],
       [keys |-> {<<"e", "n", "t", "e", "r">>, <<"r", "e", "t", "u", "r", "n">>}, token |-> <<"R", "e", "t", "u", "r", "n">>],
       [keys |-> {<<"b", "a", "c", "k", "s", "p", "a", "c", "e">>}, token |-> <<"B", "a", "c", "k", "s", "p", "a", "c", "e">>],
       [keys |-> {<<"d", "e", "l", "e", "t", "e">>}, token |-> <<"D", "e", "l", "e", "t", "e">>],
       [keys |-> {<<"e", "s", "c", "a", "p", "e">>, <<"e", "s", "c">>}, token |-> <<"E", "s", "c", "a", "p", "e">>],
       [keys |-> {<<"a", "r", "r", "o", "w", "u", "p">>, <<"u", "p">>}, token |-> <<"U", "p">>],
       [keys |-> {<<"a", "r", "r", "o", "w", "d", "o", "w", "n">>, <<"d", "o", "w", "n">>}, token |-> <<"D", "o", "w", "n">>],
       [keys |-> {<<"a", "r", "r", "o", "w", "l", "e", "f", "t">>, <<"l", "e", "f", "t">>}, token |-> <<"L", "e", "f", "t">>],
       [keys |-> {<<"a", "r", "r", "o", "w", "r", "i", "g", "h", "t">>, <<"r", "i", "g", "h", "t">>}, token |-> <<"R", "i", "g", "h", "t">>],
       [keys |-> {<<"p", "a", "g", "e", "u", "p">>}, token |-> <<"P", "a", "g", "e", "U", "p">>],
       [keys |-> {<<"p", "a", "g", "e", "d", "o", "w", "n">>}, token |-> <<"P", "a", "g", "e", "D", "o", "w", "n">>],
       [keys |-> {<<"h", "o", "m", "e">>}, token |-> <<"H", "o", "m", "e">>],
       [keys |-> {<<"e", "n", "d">>}, token |-> <<"E", "n", "d">>],
       [keys |-> {<<"i", "n", "s", "e", "r", "t">>}, token |-> <<"I", "n", "s", "e", "r", "t">>],
       [keys |-> {<<"p", "r", "i", "n", "t", "s", "c", "r", "e", "e", "n">>}, token |-> <<"P", "r", "i", "n", "t", "S", "c", "r", "e", "e", "n">>] >>

\* p.match(/^f(\d+)$/)
fMatch(q) == Len(q) >= 2 /\ q[1] = "f" /\ \A i \in 2..Len(q) : q[i] \in Digits

\* the part after the table: function keys, a single character, anything else
formatOther(q) ==
    IF fMatch(q) THEN <<"F">> \o Tail(q)
    ELSE IF Len(q) = 1 THEN toUpperCaseText(q)
    ELSE IF q = <<>> THEN <<>>
    ELSE toUpperCaseText(<<q[1]>>) \o Tail(q)

\* the first line of the table that has q, or the rest of the callback
lookup(q) ==
    IF \E i \in 1..Len(TokenTable) : q \in TokenTable[i].keys
    THEN TokenTable[CHOOSE i \in 1..Len(TokenTable) : q \in TokenTable[i].keys].token
    ELSE formatOther(q)

\* a plausible slip: the table is consulted with the part as typed
formatToken_NoLowerCase(part) == lookup(trim(part))

\* the callback of map in formatHotkey: `const p = part.trim().toLowerCase()`
formatToken(part) == lookup(toLowerCaseText(trim(part)))

\* formatHotkey(hotkey), for the hotkey as a string
formatHotkeyText(hotkey) ==
    LET parts == splitPlus(hotkey)
    IN  joinPlus([i \in 1..Len(parts) |-> formatToken(parts[i])])

\* the parts the hotkey strings of the run are made of
RawParts ==
    { <<"c", "t", "r", "l">>, <<"C", "o", "n", "t", "r", "o", "l">>, <<"O", "P", "T", "I", "O", "N">>, <<"c", "m", "d">>,
      <<"m", "e", "t", "a">>, <<"S", "h", "i", "f", "t">>, <<"e", "n", "t", "e", "r">>, <<"R", "e", "t", "u", "r", "n">>,
      <<"e", "s", "c">>, <<"u", "p">>, <<"A", "r", "r", "o", "w", "U", "p">>, <<"f", "5">>,
      <<"F", "1", "2">>, <<"p">>, <<"P">>, <<SharpS>>,
      <<"g", "l", "o", "b", "e">>, <<" ", "a", "l", "t", " ">>, <<>> }

RECURSIVE StringsOf(_)
StringsOf(n) ==
    IF n = 1 THEN RawParts
    ELSE LET shorter == StringsOf(n - 1)
         IN  shorter \cup {x \o <<"+">> \o y : x \in shorter, y \in RawParts}

HotkeyStrings == StringsOf(MaxParts)

\* no call of formatHotkey is followed
FormatIdle == fmtIn = <<>> /\ fmtOut = <<>> /\ fmtPC = "idle"

AllOthersUnchangedByFormat ==
    UNCHANGED <<appVars, orchVars, workerVars, readerVars, countVars, nativeVars,
                quitVars, rendererVars, tapVars, attachVars>>

\* formatHotkey(hotkey) returns
formatCall ==
    /\ AllOthersUnchangedByFormat
    /\ fmtPC = "call"
    /\ fmtOut' = formatHotkeyText(fmtIn)
    /\ fmtPC' = "done"
    /\ UNCHANGED fmtIn

\* formatHotkey is called with a result of its own
formatAgain ==
    /\ AllOthersUnchangedByFormat
    /\ fmtPC = "done" /\ fmtOut # fmtIn
    /\ fmtIn' = fmtOut /\ fmtOut' = <<>>
    /\ fmtPC' = "call"

FormatNext == formatCall \/ formatAgain

\* ================================== the listener's start and its failures
\* what the listener writes to stderr when the first and when the second
\* CGEvent.tapCreate returns nil, as words
StderrFirst ==
    <<"ERROR:", "Could", "not", "create", "event", "tap.", "Grant", "Accessibility",
      "permission", "in", "System", "Settings.", "\n">>
StderrSecond == <<"ERROR:", "Could", "not", "create", "event", "tap.", "\n">>
StderrOf(point) == IF point = 1 THEN StderrFirst ELSE StderrSecond

\* String.prototype.includes, for a word
includes(text, word) == \E i \in 1..Len(text) : text[i] = word

\* globeProcess.stderr.on("data")
globeStderrData(o, data) ==
    IF includes(trim(data), "Accessibility")
    THEN webContentsSend(o, ErrorMsg("Globe key requires Accessibility permission."))
    ELSE o

\* globeProcess.on("close")
globeCloseHandler(o) == [o EXCEPT !.globeProcess = 0]

\* the error messages among those a handler sent to the window
ErrorsSent(o) == Cardinality({i \in 1..Len(o.sent) : o.sent[i].type = "error"})

\* no listener has been spawned
AttachIdle ==
    /\ listenerPC = "none" /\ failPoint = 0 /\ errPipe = <<>>
    /\ nErrorsSent = 0 /\ nSpawns = 0

AllOthersUnchangedByAttach ==
    UNCHANGED <<appVars, workerVars, readerVars, countVars, nativeVars, quitVars,
                rendererVars, tapVars, formatVars, machine>>

\* the worker reports another hotkey (the user picked it): registerHotkey
\* releases the binding and, for the globe key, spawns a listener
selectHotkey(hotkey) ==
    /\ AllOthersUnchangedByAttach
    /\ hotkey # currentHotkey
    /\ listenerPC \in {"none", "ready", "closed"}
    /\ isGlobeHotkey(hotkey) => nSpawns < MaxSpawns
    /\ LET o == registerHotkey(O, hotkey, "ok", machine)
           spawned == Len(o.procs) > Len(procs)
       IN  /\ Commit(o)
           /\ listenerPC' = IF spawned THEN "spawned" ELSE "none"
           /\ nSpawns' = IF spawned THEN nSpawns + 1 ELSE nSpawns
           /\ nErrorsSent' = ErrorsSent(o)
    /\ failPoint' = 0 /\ errPipe' = <<>>

\* the listener's next CGEvent.tapCreate; on nil it writes its message to
\* stderr and exits with code 1, after the second tap it prints READY
tapCreate(created) ==
    /\ AllOthersUnchangedByAttach
    /\ listenerPC \in {"spawned", "tapped"}
    /\ LET point == IF listenerPC = "spawned" THEN 1 ELSE 2
       IN  IF created
           THEN /\ listenerPC' = IF point = 1 THEN "tapped" ELSE "ready"
                /\ UNCHANGED <<failPoint, errPipe, procs>>
           ELSE /\ listenerPC' = "exited"
                /\ failPoint' = point
                /\ errPipe' = StderrOf(point)
                /\ procs' = [procs EXCEPT ![globeProcess].status = "exited"]
    /\ UNCHANGED <<currentHotkey, currentMode, isActive, pill, globeProcess,
                   pythonProcess, registered, buffer, stdin, sent, calls,
                   nErrorsSent, nSpawns>>

\* globeProcess.stderr.on("data"): the next k words of stderr arrive
globeStderr(k) ==
    /\ AllOthersUnchangedByAttach
    /\ k \in 1..Len(errPipe)
    /\ LET o == globeStderrData(O, SubSeq(errPipe, 1, k))
       IN  /\ Commit(o)
           /\ nErrorsSent' = nErrorsSent + ErrorsSent(o)
    /\ errPipe' = SubSeq(errPipe, k + 1, Len(errPipe))
    /\ UNCHANGED <<listenerPC, failPoint, nSpawns>>

\* globeProcess.on("close"): the listener has exited and its pipes are drained
globeExited ==
    /\ AllOthersUnchangedByAttach
    /\ listenerPC = "exited" /\ errPipe = <<>>
    /\ LET o == globeCloseHandler(O)
       IN  Commit([o EXCEPT !.procs[globeProcess].status = "closed"])
    /\ listenerPC' = "closed"
    /\ UNCHANGED <<failPoint, errPipe, nErrorsSent, nSpawns>>

AttachNext ==
    \/ \E hotkey \in OrchHotkeys : selectHotkey(hotkey)
    \/ \E created \in BOOLEAN : tapCreate(created)
    \/ \E k \in 1..Len(errPipe) : globeStderr(k)
    \/ globeExited

\* are still waiting for the engine
HistoryOfLen(n) == [i \in 1..n |-> IF i % 2 = 0 THEN <<"a">> ELSE <<"a", " ", "a">>]

HistoryLens == (HistoryLimit - 2)..HistoryLimit

TasksInFlight == {[sess |-> i, samples |-> <<[s |-> i, n |-> i]>>] : i \in 1..MaxTasks}

HistoryInit ==
    /\ isRecording = FALSE
    /\ isModelLoaded = TRUE
    /\ isModelLoading = FALSE
    /\ statusText = "Transcribing..."
    /\ \E n \in HistoryLens :
          /\ transcriptions = HistoryOfLen(n)
          /\ lastTranscription = transcriptions[n]
    /\ errorMessage = "nil"
    /\ config = [mode |-> "pushToTalk", hotkey |-> "fn"]
    /\ audioSamples = <<>>
    /\ bootPC = "done"
    /\ acs = AcsInit
    /\ tapPending = <<>>
    /\ tasks = TasksInFlight
    /\ crashed = FALSE
    /\ session = MaxTasks
    /\ nextBlock = MaxTasks + 1
    /\ dispatched = [i \in 1..MaxTasks |-> [sess |-> i, samples |-> <<[s |-> i, n |-> i]>>]]
    /\ inserted = <<>>
    /\ lastCall = [op |-> "init"]

HistoryNext ==
    \/ transcribeReturns
    \/ transcribeThrows

InitHistory == HistoryInit /\ OrchIdle /\ NativeInit /\ QuitIdle /\ RendererInit /\ TapIdle /\ AttachIdle /\ FormatIdle

SpecHistory == InitHistory /\ [][HistoryNext]_vars

InitApp == AppInit /\ OrchIdle /\ NativeInit /\ QuitIdle /\ RendererInit /\ TapIdle /\ AttachIdle /\ FormatIdle

SpecApp == InitApp /\ [][AppNext]_vars

InitParse == AppInit /\ ParseInit /\ NativeInit /\ QuitIdle /\ RendererInit /\ TapIdle /\ AttachIdle /\ FormatIdle

SpecParse == InitParse /\ [][ParseNext]_vars

InitOrch == AppInit /\ OrchInit /\ NativeInit /\ QuitIdle /\ RendererInit /\ TapIdle /\ AttachIdle /\ FormatIdle

InitGlobe == AppInit /\ OrchIdle /\ NativeInit /\ QuitIdle /\ RendererInit /\ TapIdle /\ AttachIdle /\ FormatIdle

SpecGlobe == InitGlobe /\ [][GlobeNext]_vars

InitQuit == AppInit /\ QuitInit /\ NativeInit /\ RendererInit /\ TapIdle /\ AttachIdle /\ FormatIdle

SpecQuit == InitQuit /\ [][QuitNext]_vars

InitRenderer == AppInit /\ OrchIdle /\ NativeInit /\ QuitIdle /\ RendererInit /\ TapIdle /\ AttachIdle /\ FormatIdle

SpecRenderer == InitRenderer /\ [][RendererNext]_vars

SpecOrch == InitOrch /\ [][OrchNext]_vars

InitTap == AppInit /\ OrchIdle /\ NativeInit /\ QuitIdle /\ RendererInit /\ TapInit /\ AttachIdle /\ FormatIdle

SpecTap == InitTap /\ [][TapNext]_vars

\* the orchestrator started, window open, no hotkey bound yet, helper built
InitAttach == AppInit /\ OrchIdle /\ NativeInit /\ QuitIdle /\ RendererInit /\ TapIdle /\ AttachIdle /\ FormatIdle

SpecAttach == InitAttach /\ [][AttachNext]_vars

\* the service constructed, nothing started
InitCapture == AppInit /\ OrchIdle /\ NativeInit /\ QuitIdle /\ RendererInit /\ CaptureInit /\ AttachIdle /\ FormatIdle

SpecCapture == InitCapture /\ [][CaptureNext]_vars

\* formatHotkey is about to be called with some hotkey string
InitFormat ==
    /\ AppInit /\ OrchIdle /\ NativeInit /\ QuitIdle /\ RendererInit /\ TapIdle /\ AttachIdle
    /\ fmtIn \in HotkeyStrings /\ fmtOut = <<>> /\ fmtPC = "call"

SpecFormat == InitFormat /\ [][FormatNext]_vars

\* ------------------------------------------------------ claims: AppState
\* everything of AppState and its services except the record of the last call
appStateVars == <<isRecording, isModelLoaded, isModelLoading, statusText,
                  lastTranscription, transcriptions, errorMessage, config,
                  audioSamples, bootPC, acs, tapPending, tasks, crashed,
                  session, nextBlock, dispatched, inserted>>

\* C3: a session is open only while the engine is loaded (isRecording implies
\* isModelLoaded in every reachable state), and a setActive call made while the
\* model is not loaded or still loading changes nothing: not the session, not the
\* capture, and not the mode and hotkey configuration.
C3_LoadedGuard ==
    /\ [](isRecording => isModelLoaded)
    /\ [](isModelLoading => ~isModelLoaded)
    /\ [][(lastCall'.op = "setActive" /\ (~isModelLoaded \/ isModelLoading))
            => UNCHANGED appStateVars]_vars

\* C3 witness: an activate call was made while the model was still loading
C3_Witness ==
    /\ lastCall = [op |-> "setActive", active |-> TRUE]
    /\ isModelLoading /\ ~isModelLoaded /\ ~isRecording
    /\ config = [mode |-> "toggleMute", hotkey |-> "f5"]

\* C4: at most one session is open at a time: the open session has exactly one
\* capture (one tap, wired to that session), and an activate call made while a
\* session is open starts no second capture, opens no new session and leaves the
\* accumulated samples as they are.
C4_OneSession ==
    /\ []((isRecording /\ ~crashed)
            => (acs.isRunning /\ acs.taps = 1 /\ acs.onBuffer = session))
    /\ [][(lastCall'.op = "setActive" /\ lastCall'.active /\ isRecording)
            => UNCHANGED <<isRecording, audioSamples, acs, session, tasks,
                           dispatched, statusText, crashed>>]_vars

\* C4 witness: an activate call arrived while a session with samples was open
C4_Witness ==
    /\ lastCall = [op |-> "setActive", active |-> TRUE]
    /\ isRecording /\ audioSamples # <<>> /\ acs.taps = 1

\* C8: every transcribe call carries one session's samples: they are non-empty,
\* all captured by the capture of the session that is dispatched, in the order
\* captured, and no session is dispatched twice.
C8_DispatchIsOwnSession ==
    /\ \A i \in 1..Len(dispatched) :
          /\ dispatched[i].samples # <<>>
          /\ \A j \in 1..Len(dispatched[i].samples) :
                dispatched[i].samples[j].s = dispatched[i].sess
          /\ \A j, k \in 1..Len(dispatched[i].samples) :
                j < k => dispatched[i].samples[j].n < dispatched[i].samples[k].n
    /\ \A i, j \in 1..Len(dispatched) :
          i # j => dispatched[i].sess # dispatched[j].sess

\* C9: a stop with zero accumulated samples makes no transcribe call, sets the
\* status to Ready and adds no transcript entry and no text injection; every
\* transcribe call has samples, and every injected text comes from a session
\* that was dispatched.
C9_EmptyStop ==
    /\ [][(isRecording /\ ~isRecording' /\ audioSamples = <<>>)
            => /\ tasks' = tasks /\ dispatched' = dispatched
               /\ statusText' = "Ready"
               /\ transcriptions' = transcriptions /\ inserted' = inserted
               /\ lastTranscription' = lastTranscription]_vars
    /\ [](\A i \in 1..Len(dispatched) : dispatched[i].samples # <<>>)
    /\ [](\A t \in tasks : t.samples # <<>>)
    /\ [](\A i \in 1..Len(inserted) :
             \E j \in 1..Len(dispatched) : dispatched[j].sess = inserted[i].sess)

\* C9 witness: the first session was started, captured nothing and was stopped
C9_Witness ==
    /\ lastCall = [op |-> "setActive", active |-> FALSE]
    /\ session = 1 /\ ~isRecording /\ errorMessage = "nil"
    /\ dispatched = <<>> /\ statusText = "Ready" /\ nextBlock > 1

AllBlank(text) == \A i \in 1..Len(text) : text[i] \in {" ", "\n"}

\* C10: when the engine returns text that is empty after trimming whitespace and
\* newlines, the history and lastTranscription are unchanged, nothing is
\* injected and the status is Ready; no entry of the history and no injected
\* text is empty or starts or ends with whitespace.
C10_BlankDiscarded ==
    /\ [][(lastCall'.op = "transcribed" /\ AllBlank(lastCall'.text))
            => /\ transcriptions' = transcriptions
               /\ lastTranscription' = lastTranscription
               /\ inserted' = inserted
               /\ statusText' = "Ready"]_vars
    /\ [](\A i \in 1..Len(transcriptions) :
             /\ transcriptions[i] # <<>>
             /\ ~AllBlank(<<Head(transcriptions[i])>>)
             /\ ~AllBlank(<<transcriptions[i][Len(transcriptions[i])]>>))
    /\ [](\A i \in 1..Len(inserted) : ~AllBlank(inserted[i].text))

\* C10 witness: the engine returned a text of whitespace only for a session
C10_Witness ==
    /\ lastCall.op = "transcribed"
    /\ lastCall.text = <<" ", "\n">>
    /\ statusText = "Ready" /\ inserted = <<>> /\ transcriptions = <<>>

\* C11: the transcript history never holds more than 200 entries; a successful
\* transcription appends its trimmed text as the last entry, and when the
\* history was full exactly the oldest entry is dropped, the others keeping
\* their order.
C11_HistoryBounded ==
    /\ [](Len(transcriptions) <= HistoryLimit)
    /\ [][(lastCall'.op = "transcribed" /\ ~AllBlank(lastCall'.text))
            => LET h == Append(transcriptions, trimmingCharacters(lastCall'.text))
               IN  transcriptions' = IF Len(transcriptions) = HistoryLimit
                                     THEN SubSeq(h, 2, Len(h)) ELSE h]_vars

\* C11 witness: a transcription arrived when the history was full: the history
\* is still full, its oldest entry is gone and the new text is its last entry
C11_Witness ==
    /\ lastCall.op = "transcribed" /\ lastCall.text = <<" ", "a", "\n">>
    /\ Len(transcriptions) = HistoryLimit
    /\ transcriptions[1] = <<"a">> /\ transcriptions[2] = <<"a", " ", "a">>
    /\ transcriptions[HistoryLimit] = <<"a">>
    /\ transcriptions[HistoryLimit - 1] = <<"a">>

\* C12: when the engine fails on a dispatched session, an error message is set,
\* the status is Ready, the history, lastTranscription and the injected texts
\* are unchanged, no transcribe call is made (the session is not retried), the
\* session's Task is gone, and nothing else changes, so that the next activate
\* starts a session as usual.
C12_EngineFailure ==
    [][lastCall'.op = "transcribeFailed"
        => /\ errorMessage' = "Transcription failed"
           /\ statusText' = "Ready"
           /\ transcriptions' = transcriptions
           /\ lastTranscription' = lastTranscription
           /\ inserted' = inserted
           /\ dispatched' = dispatched
           /\ \A t \in tasks' : t \in tasks /\ t.sess # lastCall'.sess
           /\ UNCHANGED <<isRecording, isModelLoaded, audioSamples, acs, session>>]_vars

\* C12 witness: the engine failed on session 1 and a later activate has opened
\* session 2
C12_Witness ==
    /\ errorMessage = "Transcription failed"
    /\ lastCall = [op |-> "setActive", active |-> TRUE]
    /\ isRecording /\ session = 2 /\ acs.isRunning
    /\ Len(dispatched) = 1 /\ tasks = {} /\ inserted = <<>>

\* --------------------------------------------- claims: native listener
\* C13: the tokens printed alternate FN_DOWN, FN_UP, starting with FN_DOWN;
\* fnDown tells which comes next; at most one FN_DOWN is printed during one
\* physical press of fn and at most one FN_UP after one physical release.
C13_EdgeDebounce ==
    /\ \A i \in 1..Len(emitted) :
          emitted[i] = (IF i % 2 = 1 THEN "FN_DOWN" ELSE "FN_UP")
    /\ fnDown = (Len(emitted) % 2 = 1)
    /\ downsInPress <= 1
    /\ upsInRelease <= 1

\* C13 witness: fn was pressed, another modifier was pressed and released
\* while it was held, fn was released, and fn is pressed again
C13_Witness ==
    /\ emitted = <<"FN_DOWN", "FN_UP", "FN_DOWN">>
    /\ nKeyEvents = 5 /\ held = {"fn"} /\ downsInPress = 1

\* C14: while an fn press made with another modifier held is under way, no
\* FN_DOWN has been printed for it.
C14_CombinedPressIgnored ==
    ("fn" \in held /\ pressCombined) => downsInPress = 0

\* C15: the tap that delivers the key events is enabled whenever no
\* tap-disabled event is waiting for the callback: the callback has re-enabled
\* the tap the OS disabled.
C15_TapReenabled ==
    tapNotice = "none" => tapEnabled[RunLoopTap]

\* ------------------------------------------------------ claims: reader
\* a line the reader handles: not blank, and JSON.parse accepts it
IsValidLine(line) == trim(line) # <<>> /\ JSONparse(line).ok

\* the lines of the whole stream, their newlines, and the valid ones among them
WholeLines == splitBuffer(<<>>, stream).lines

NewlineAt(j) ==
    CHOOSE p \in 1..Len(stream) :
        stream[p] = "\n" /\ Cardinality({q \in 1..p : stream[q] = "\n"}) = j

ValidIdx == {j \in 1..Len(WholeLines) : IsValidLine(WholeLines[j])}

NthValid(i) == CHOOSE j \in ValidIdx : Cardinality({q \in ValidIdx : q <= j}) = i

\* what the window receives when the whole stream arrives as one chunk
SingleChunk == pythonStdoutData(OInit, stream, "ok", "ok").sent

\* C6: however the stream is cut into chunks, the reader has processed exactly
\* the valid messages whose newline has been delivered, each in the data event
\* that delivered its newline, and the messages processed are those processed
\* when the whole stream arrives as a single chunk.
C6_ChunkIndependent ==
    /\ Len(forwarded) = Cardinality({j \in ValidIdx : NewlineAt(j) <= pos})
    /\ \A i \in 1..Len(forwarded) :
          /\ i <= Cardinality(ValidIdx)
          /\ forwarded[i].from < NewlineAt(NthValid(i))
          /\ NewlineAt(NthValid(i)) <= forwarded[i].to
          /\ forwarded[i].msg = SingleChunk[i]

RECURSIVE ReplayValid(_, _)
\* the state messages among the given lines, applied in order
ReplayValid(o, lines) ==
    IF lines = <<>> THEN o
    ELSE LET msg == JSONparse(Head(lines)).msg
         IN  ReplayValid(IF msg.type = "state"
                         THEN handleStateMessage(o, msg, "ok", "ok") ELSE o,
                         Tail(lines))

\* C7: lines that are not JSON leave no trace: the messages forwarded to the UI
\* are exactly the valid lines read so far, in order (so every valid line after
\* a malformed one is processed), and currentHotkey, currentMode, isActive, the
\* pill and the registered accelerators are what the valid lines alone produce.
C7_MalformedDropped ==
    LET valid == SelectSeq(linesSeen, IsValidLine)
        o == ReplayValid(OInit, valid)
    IN  /\ [i \in 1..Len(forwarded) |-> forwarded[i].msg]
              = [i \in 1..Len(valid) |-> JSONparse(valid[i]).msg]
        /\ currentHotkey = o.currentHotkey
        /\ currentMode = o.currentMode
        /\ isActive = o.isActive
        /\ pill = o.pill
        /\ registered = o.registered

\* C7 witness: a line that is not JSON was read, a valid state message after it
\* was forwarded and applied, and the stream is at its end
C7_Witness ==
    /\ pos = Len(stream)
    /\ \E i, j \in 1..Len(linesSeen) :
          /\ i < j
          /\ trim(linesSeen[i]) # <<>> /\ ~JSONparse(linesSeen[i]).ok
          /\ IsValidLine(linesSeen[j])
    /\ forwarded # <<>> /\ forwarded[Len(forwarded)].msg.type = "state"
    /\ isActive /\ pill = "recording"

\* ------------------------------------------------ claims: orchestrator
\* C1: in push-to-talk mode, with one native listener delivering the edges and
\* the worker running, the number of completed sessions (set_active true later
\* followed by set_active false) equals the number of Down->Up pairs.
C1_SessionsArePairs ==
    ( /\ currentMode = "push-to-talk" /\ worker.mode = "push-to-talk"
      /\ pythonProcess = "running"
      /\ Len(procs) <= 1
      /\ nInputs = nDown )
    => nSessions = nPairs

\* C2: in toggle-mute mode, after N accelerator fires and nothing else from the
\* user, with every command handled and every state message delivered, isActive
\* is the negation of its value before the first fire when N is odd, and that
\* value when N is even.
C2_ToggleParity ==
    ( /\ currentMode = "toggle-mute" /\ worker.mode = "toggle-mute"
      /\ pythonProcess = "running"
      /\ nFires > 0 /\ nInputs = nFires
      /\ ~worker.rejected
      /\ stdin = <<>> /\ stdout = <<>> )
    => isActive = (IF nFires % 2 = 1 THEN ~tgInitial ELSE tgInitial)

\* C5: the native listener and an OS accelerator are never active together: a
\* running native listener process implies that no accelerator is registered.
C5_ListenerExcludesAccelerator ==
    (\E pid \in 1..Len(procs) : procs[pid].status = "running") => registered = {}

\* the binding calls of a handler that bind a hotkey, those that failed to
\* register an accelerator, and the error messages among the messages sent
Binds(log) == {i \in 1..Len(log) : log[i].op \in {"register", "listen"}}
FailedRegisters(log) ==
    {i \in Binds(log) : log[i].op = "register" /\ log[i].result # "ok"}
Errors(msgs) == {i \in 1..Len(msgs) : msgs[i].type = "error"}

C17_GracefulShutdown ==
    /\ termAt # NoTimer =>
          /\ workerProc = "terminated"
          /\ quitWrites >= 1
          /\ quitAt # NoTimer /\ termAt >= quitAt + Grace
    /\ workerProc = "exited" => termAt = NoTimer
    /\ workerProc = "terminated" => termAt # NoTimer

\* C17 witness: will-quit ran one second into the run with a live worker, the
\* worker did not exit, and the timer terminated it when the grace period was
\* over
C17_Witness ==
    /\ workerProc = "terminated" /\ quitAt = 1 /\ termAt = quitAt + Grace
    /\ quitWrites >= 1 /\ appPhase = "quitting"

\* C18: once no command and no message is in flight between the orchestrator
\* and the worker, the orchestrator's isActive is the worker's active state; a
\* worker that is gone has no active session.
C18_ActiveAgrees ==
    (stdin = <<>> /\ stdout = <<>> /\ buffer = <<>>)
    => isActive = (pythonProcess = "running" /\ worker.active)

\* ---------------------------------------------------- claims: renderer
\* the commands caused by change k of the dropdown, in the order sent
CausedBy(k) == SelectSeq(rsent, LAMBDA c : c.change = k)
ActionsOf(cmds) == [i \in 1..Len(cmds) |-> cmds[i].action]
Pending(k) == \E i \in 1..Len(startTimers) : startTimers[i] = k

\* C19: a device change made while the state is ready (engine loaded, no
\* session active) sends set_device with the device picked and neither stop nor
\* start; one made while recording sends set_device, stop and, once its timer
\* has run, start.
C19_RestartOnlyWhenRecording ==
    \A k \in 1..Len(changeLog) :
        /\ (changeLog[k].loaded /\ changeLog[k].state = "ready") =>
              ActionsOf(CausedBy(k)) = <<"set_device">>
        /\ (changeLog[k].loaded /\ changeLog[k].state = "recording" /\ ~Pending(k)) =>
              ActionsOf(CausedBy(k)) = <<"set_device", "stop", "start">>

\* C20: a device change made while the model is loaded sends set_device and,
\* right after it, stop, and sends start exactly once, after these, when its
\* timer has run, however many changes are made before that; while the start
\* is pending it has not been sent; a change made while the model is not loaded
\* sends set_device only.
C20_StopThenStart ==
    \A k \in 1..Len(changeLog) :
        /\ CausedBy(k)[1] = RCmd("set_device", changeLog[k].device, k)
        /\ ActionsOf(CausedBy(k)) =
              IF ~changeLog[k].loaded THEN <<"set_device">>
              ELSE IF Pending(k) THEN <<"set_device", "stop">>
              ELSE <<"set_device", "stop", "start">>
        /\ changeLog[k].loaded =>
              \E i \in 1..(Len(rsent) - 1) :
                  /\ rsent[i] = RCmd("set_device", changeLog[k].device, k)
                  /\ rsent[i + 1] = RCmd("stop", NoDevice, k)

\* C20 witness: two device changes were made with the model loaded, the second
\* before the start of the first was sent, and both starts have been sent
C20_Witness ==
    /\ Len(changeLog) = 2 /\ changeLog[1].loaded /\ changeLog[2].loaded
    /\ startTimers = <<>>
    /\ \E i \in 1..(Len(rsent) - 5) :
          [j \in 1..6 |-> <<rsent[i + j - 1].action, rsent[i + j - 1].change>>]
              = << <<"set_device", 1>>, <<"stop", 1>>, <<"set_device", 2>>,
                   <<"stop", 2>>, <<"start", 1>>, <<"start", 2>> >>

\* ------------------------------------------------- claims: the tap block
Silent(samples) == \A i \in 1..Len(samples) : samples[i] = 0

\* C21, as stated: whatever the filter state, a block of zeros that went
\* through the high-pass loop comes out as a block of zeros.
C21_SilenceIdempotent ==
    (lastTap.stage = "done" /\ Silent(lastTap.converted)) => Silent(lastTap.filtered)

\* C21, corrected: on a block of zeros the filter's output decays from the
\* state it was in: the first output is hpAlpha * (prevOutput - prevInput),
\* every next one is hpAlpha times the one before it, and the output block is
\* all zero exactly when prevOutput = prevInput, as it is right after start().
C21_SilenceDecays ==
    (lastTap.stage = "done" /\ Silent(lastTap.converted)) =>
        /\ lastTap.filtered[1] =
              RoundDiv(hpAlpha.num * (lastTap.prevOut - lastTap.prevIn), hpAlpha.den)
        /\ \A i \in 2..Len(lastTap.filtered) :
              lastTap.filtered[i] = RoundDiv(hpAlpha.num * lastTap.filtered[i - 1], hpAlpha.den)
        /\ Silent(lastTap.filtered) <=> (lastTap.prevOut = lastTap.prevIn)

\* C21 witness: a block of zeros was filtered after a block that ended loud,
\* and its first output is not zero
C21_Witness ==
    /\ lastTap.stage = "done" /\ Len(lastTap.converted) = 2 /\ Silent(lastTap.converted)
    /\ lastTap.prevIn = 40 /\ lastTap.prevOut # lastTap.prevIn
    /\ lastTap.filtered[1] # 0

\* C22: for every input rate and every hardware block, the output frame count
\* computed for the block differs from round(frames * 16000 / rate) by at most
\* one frame.
C22_OutputFrames ==
    lastTap.stage # "none" =>
        Abs(lastTap.outputFrames - RoundDiv(lastTap.frames * TargetRate, inputRate)) <= 1

\* C22 witness: a block of 4096 frames at 44100 Hz was given 1486 output frames
C22_Witness ==
    /\ lastTap.stage = "done" /\ inputRate = 44100
    /\ lastTap.frames = 4096 /\ lastTap.outputFrames = 1486

\* C24: the samples in the session buffer are the filtered samples: every
\* block handed to the accumulating consumer is the block after the filter.
C24_FilteredAccumulated == sessionSamples = filteredAll

\* ------------------------------------- claims: orchestrator, hotkey signals
\* the mode has been `mode` at the worker all along and the orchestrator has it
ModeIs(mode) ==
    /\ pythonProcess = "running" /\ ~modeChanged
    /\ currentMode = mode /\ worker.mode = mode

\* the user did nothing but press and release the key of the one listener
OnlyKeyEdges == nInputs = nDown /\ Len(procs) = 1

\* C23: the mode decides what a hotkey signal does. In toggle-mute mode every
\* key-down edge flips the activation once and a key release leaves it alone:
\* after N presses the last set_active sent was an activation exactly when N is
\* odd, and N div 2 sessions were ended; every accelerator fire flips it once,
\* so that, with everything delivered, isActive has changed exactly when the
\* number of fires is odd. In push-to-talk mode a Down begins the session and
\* the Up ends it: the sessions ended are the Down-Up pairs.
C23_ModeMapping ==
    /\ (ModeIs("toggle-mute") /\ OnlyKeyEdges) =>
          /\ sessOpen = (nDown % 2 = 1)
          /\ nSessions = nDown \div 2
    /\ ( /\ ModeIs("toggle-mute") /\ nInputs = nFires /\ nFires > 0
         /\ ~worker.rejected /\ stdin = <<>> /\ stdout = <<>> ) =>
          isActive = (IF nFires % 2 = 1 THEN ~tgInitial ELSE tgInitial)
    /\ (ModeIs("push-to-talk") /\ OnlyKeyEdges) => nSessions = nPairs

\* ------------------------------------------- claims: the session buffer
\* C25: the audio callback never appends to the session buffer once
\* stopRecording has taken it for transcription: stopRecording leaves the buffer
\* empty, and it stays empty for as long as no session is open.
C25_NoAppendAfterStop == ~isRecording => audioSamples = <<>>

\* ------------------------------------------------ claims: mirrored state
\* C26: outside the worker the activation state is a read-only mirror: the
\* orchestrator's isActive changes only in a step that handles a message of
\* the worker, and the window's currentState only in a step that handles a
\* message delivered to it.
C26_ReadOnlyMirror ==
    [][ /\ isActive' # isActive => (stdout # <<>> /\ stdout' = Tail(stdout))
        /\ currentState' # currentState => nMsgs' = nMsgs + 1 ]_vars

C29_AttachFailureReportedOnce ==
    (listenerPC = "closed" /\ failPoint # 0) =>
        (nErrorsSent = 1 /\ globeProcess = 0 /\ Len(procs) = nSpawns)

\* C30: with the helper binary absent, binding the globe key sends exactly one
\* error message to the window, spawns no listener and leaves the
\* orchestrator running with the hotkey recorded.
C30_OneMessageNoBinary ==
    (machine = "noBinary"
       /\ \E i \in 1..Len(calls) : calls[i].op = "listen" /\ calls[i].result = "false") =>
        (/\ Cardinality({i \in 1..Len(sent) : sent[i].type = "error"}) = 1
         /\ globeProcess = 0 /\ procs = <<>>
         /\ isGlobeHotkey(currentHotkey))

\* ------------------------------------------- claims: capture start failure
\* C31: after a setActive(true) whose capture start threw (the model is
\* loaded and isRecording is false again) the status is Ready and nothing of
\* the capture is left behind (not running, no tap on the bus, engine
\* stopped), and the process never dies, so a later Down starts a session.
C31_StartFailureRecovers ==
    /\ ~crashed
    /\ (lastCall = [op |-> "setActive", active |-> TRUE] /\ isModelLoaded /\ ~isRecording) =>
          /\ errorMessage = "Audio capture failed"
          /\ statusText = "Ready"
          /\ ~acs.isRunning /\ acs.taps = 0 /\ ~acs.engineRunning

\* ------------------------------------------------ claims: filter state
\* a step of the tap block that filtered a block
BlockFiltered == nTapBlocks' = nTapBlocks + 1 /\ lastTap'.stage = "done"

FilterStateChanges == hpPrevInput' # hpPrevInput \/ hpPrevOutput' # hpPrevOutput

\* C32, as claimed: the filter state changes only in a filtered block and in a
\* start() that actually starts capture (isRunning becomes true).
C32_ResetOnlyByStartedCapture ==
    [][ FilterStateChanges =>
           \/ BlockFiltered
           \/ (~acs.isRunning /\ acs'.isRunning /\ hpPrevInput' = 0 /\ hpPrevOutput' = 0) ]_vars

\* C32, amended: the filter state changes only in a filtered block and in a
\* start() called while not running that got past the creation of the
\* converter, and every such start() zeroes it, also when engine.start()
\* throws afterwards; stop(), a dropped block, a start() while running and a
\* start() that fails at the converter leave it as it was.
C32_ResetPastConverter ==
    [][ /\ FilterStateChanges =>
              \/ BlockFiltered
              \/ (lastCall'.op = "start" /\ ~acs.isRunning
                    /\ lastCall'.outcome # "converterFail")
        /\ (lastCall'.op = "start" /\ lastCall' # lastCall /\ ~acs.isRunning
              /\ lastCall'.outcome # "converterFail") =>
              (hpPrevInput' = 0 /\ hpPrevOutput' = 0)
        /\ (lastCall'.op = "start" /\ lastCall' # lastCall /\ acs.isRunning) =>
              ~FilterStateChanges ]_vars

\* C32 witness: a block was filtered and left a state other than zero, and a
\* start() called while running has returned without touching it
C32_Witness ==
    /\ lastCall.op = "start" /\ lastCall.wasRunning
    /\ lastTap.stage = "done" /\ hpPrevInput # 0 /\ hpPrevOutput # 0

\* ------------------------------------------------ claims: stop and drain
\* C33: in the step that stops a session the capture service ends with no tap
\* and no converter, the samples handed to transcription are exactly those in
\* the session buffer before the stop, and the buffer is emptied by the caller
\* in that step; no other step than a start or a stop of a session removes
\* samples from the buffer.
C33_StopLeavesBuffer ==
    [][ /\ (isRecording /\ ~isRecording') =>
              /\ acs'.taps = 0 /\ ~acs'.converter /\ ~acs'.isRunning
              /\ audioSamples' = <<>>
              /\ IF audioSamples # <<>>
                 THEN dispatched' = Append(dispatched, [sess |-> session,
                                                        samples |-> audioSamples])
                 ELSE dispatched' = dispatched
        /\ Len(audioSamples') < Len(audioSamples) => lastCall'.op = "setActive" ]_vars

\* C33 witness: a session with a block in its buffer was stopped; the block
\* is in the dispatch and the service is detached
C33_Witness ==
    /\ lastCall = [op |-> "setActive", active |-> FALSE] /\ ~isRecording
    /\ dispatched # <<>> /\ Len(dispatched[Len(dispatched)].samples) >= 1
    /\ dispatched[Len(dispatched)].sess = session
    /\ acs.taps = 0 /\ ~acs.converter /\ audioSamples = <<>>

\* ------------------------------------------------- claims: formatHotkey
\* the hotkey string with every letter that has a one-character upper case in
\* upper case, with every letter in lower case, and with a blank on both sides
\* of every part
AsUpper(str) ==
    [i \in 1..Len(str) |->
        IF Len(UpperOf(LowerOf(str[i]))) = 1 THEN UpperOf(LowerOf(str[i]))[1] ELSE str[i]]
AsLower(str) == [i \in 1..Len(str) |-> LowerOf(str[i])]
Padded(str) ==
    LET parts == splitPlus(str)
    IN  joinPlus([i \in 1..Len(parts) |-> <<" ">> \o parts[i] \o <<" ">>])

\* letter case and blanks around the parts do not matter
FormatCaseBlind ==
    /\ formatHotkeyText(AsUpper(fmtIn)) = fmtOut
    /\ formatHotkeyText(AsLower(fmtIn)) = fmtOut
    /\ formatHotkeyText(Padded(fmtIn)) = fmtOut

\* the aliases of a key give one token
AliasesOf(token) ==
    CASE token = <<"C", "t", "r", "l">> ->
            {<<"c", "t", "r", "l">>, <<"c", "o", "n", "t", "r", "o", "l">>}
      [] token = <<"A", "l", "t">> -> {<<"a", "l", "t">>, <<"o", "p", "t", "i", "o", "n">>}
      [] token = <<"C", "o", "m", "m", "a", "n", "d">> ->
            {<<"c", "m", "d">>, <<"c", "o", "m", "m", "a", "n", "d">>, <<"m", "e", "t", "a">>}
      [] token = <<"R", "e", "t", "u", "r", "n">> ->
            {<<"e", "n", "t", "e", "r">>, <<"r", "e", "t", "u", "r", "n">>}
      [] token = <<"E", "s", "c", "a", "p", "e">> ->
            {<<"e", "s", "c", "a", "p", "e">>, <<"e", "s", "c">>}
      [] token = <<"U", "p">> -> {<<"a", "r", "r", "o", "w", "u", "p">>, <<"u", "p">>}
      [] OTHER -> {}

\* every part maps by the table and the order of the parts is kept
FormatByTable ==
    LET ins == splitPlus(fmtIn)
        outs == splitPlus(fmtOut)
    IN  /\ Len(outs) = Len(ins)
        /\ \A i \in 1..Len(ins) :
              LET q == AsLower(trim(ins[i]))
              IN  /\ outs[i] = formatToken(ins[i])
                  /\ \A j \in 1..Len(TokenTable) :
                        q \in AliasesOf(TokenTable[j].token) => outs[i] = TokenTable[j].token
                  /\ AliasesOf(outs[i]) # {} => q \in AliasesOf(outs[i])

FormatIdempotent == formatHotkeyText(fmtOut) = fmtOut

\* every part of one character has an upper case of one character
SingleCased(str) ==
    LET parts == splitPlus(str)
    IN  \A i \in 1..Len(parts) :
           Len(trim(parts[i])) = 1 => Len(toUpperCaseText(AsLower(trim(parts[i])))) = 1

C35_AliveListenerIsTracked ==
    /\ \A pid \in 1..Len(procs) : procs[pid].status = "running" => globeProcess = pid
    /\ Cardinality({pid \in 1..Len(procs) : procs[pid].status = "running"}) <= 1

\* --------------------------------------- claims: status and transcript order
\* C36: whenever isRecording is true the status text is the recording status.
C36_StatusFollowsRecording == isRecording => statusText = "Recording..."

\* C37: the texts handed to the text inserter (each also appended to the
\* history in the same step) are in the order in which their sessions were
\* stopped, which is the order of the session numbers.
C37_TranscriptsInStopOrder ==
    \A i, j \in 1..Len(inserted) : i < j => inserted[i].sess < inserted[j].sess

\* ------------------------------------------------ claims: tap and isRunning
\* C38: the capture service has a tap on the bus exactly when isRunning is
\* true, and the process does not die of a second tap.
C38_TapIffRunning ==
    /\ ~crashed
    /\ acs.isRunning <=> acs.taps > 0

====
